---------------------------- MODULE Spec2Model ----------------------------
(***************************************************************************)
(* A model of the media organisers of this repository:                     *)
(*   sort_photo.py                      (SpecSort)                         *)
(*   google_takeout_organizer_final.py  (SpecGT)                           *)
(*   either of them over a single asset (SpecAsset)                        *)
(*                                                                         *)
(* Text is modelled as sequences of one-character strings, a path as the   *)
(* sequence of its components, a datetime as the tuple <<year, month,      *)
(* day>> (the time of day never reaches a decision of the code), Python's  *)
(* None as the empty tuple, and a float coordinate as the pair             *)
(* <<negative, magnitude>> with the magnitude counted in units of          *)
(* 1/360000 degree (0.01 arc second), so that a float's sign survives on   *)
(* zero as it does in IEEE arithmetic.                                     *)
(***************************************************************************)
EXTENDS Integers, Sequences, FiniteSets, TLC

VARIABLES
    source,                 \* the files os.walk(SOURCE_DIR) yields, in order
    pc,                     \* main's position: "idle", "walk", "done", "crashed", "blocked"
    run,                    \* number of the current invocation of main
    walk_i,                 \* index into source of the file the walk is at
    zip_j,                  \* index of the next member inside the archive at walk_i
    task_i,                 \* google_takeout main: index of the next task
    prog,                   \* the program that runs: "sort", "gt" or "rerun"
    target,                 \* TARGET_DIR: path -> content of the file stored there
    tmp,                    \* TMP_DIR: path -> the extracted file stored there
    hash_index,             \* sort_photo.hash_index: digest -> destination path
    hash_db,                \* the file HASH_DB: <<>> when missing, else <<mapping>>
    duplicate_files,
    unclassified_files,
    file_format_errors,
    corrupted_exif_files,
    filename_fallback_files,
    tasks,                  \* google_takeout main: the list of paths to process
    geo_cache,              \* key -> the place, or None
    geo_cache_file,         \* the file GEO_CACHE_FILE: <<>> when missing, else <<mapping>>
    reverse_geocode_failed,
    ffprobe_failed,
    gps_points,
    gps_by_day,
    year_city_count,
    city_total_count,
    processed_hashes,       \* rerun_version.processed_hashes: a set of digests
    backend_calls,          \* observation: key -> number of rg.search calls of this process
    calls,                  \* observation: the process_media calls of this run, in order
    history                 \* observation: per finished run, its calls and what it left

vars == <<source, pc, run, walk_i, zip_j, task_i, prog, target, tmp, hash_index, hash_db,
          duplicate_files, unclassified_files, file_format_errors,
          corrupted_exif_files, filename_fallback_files, tasks, geo_cache,
          geo_cache_file, reverse_geocode_failed, ffprobe_failed, gps_points,
          gps_by_day, year_city_count, city_total_count, processed_hashes,
          backend_calls, calls, history>>

-----------------------------------------------------------------------------
(* Bounds of the model.                                                    *)

MaxFiles == 3      \* files in the source tree of sort_photo
MaxTasks == 2      \* files in the source tree of google_takeout_organizer_final
MaxRuns == 2       \* invocations of main over that tree

-----------------------------------------------------------------------------
(* Values.                                                                 *)

None == <<>>

Range(s) == {s[i] : i \in 1..Len(s)}

EmptyMap == [x \in {} |-> None]

\* d[k] = v, as a Python dict assignment
Put(d, k, v) == [x \in DOMAIN d \cup {k} |-> IF x = k THEN v ELSE d[x]]

Digits == <<"0","1","2","3","4","5","6","7","8","9">>

IsDigit(c) == c \in Range(Digits)

\* int() of one decimal digit
DigitVal(c) == (CHOOSE i \in 1..10 : Digits[i] = c) - 1

\* int() of a string of decimal digits
RECURSIVE IntOf(_)
IntOf(cs) ==
    IF cs = <<>> THEN 0
    ELSE 10 * IntOf(SubSeq(cs, 1, Len(cs) - 1)) + DigitVal(cs[Len(cs)])

\* str() of a natural number
RECURSIVE StrOfInt(_)
StrOfInt(n) ==
    IF n < 10 THEN <<Digits[n + 1]>>
    ELSE StrOfInt(n \div 10) \o <<Digits[(n % 10) + 1]>>

\* f"{n:02}"
Pad2(n) == IF n < 10 THEN <<"0">> \o StrOfInt(n) ELSE StrOfInt(n)

Upper == <<"A","B","C","D","E","F","G","H","I","J","K","L","M",
           "N","O","P","Q","R","S","T","U","V","W","X","Y","Z">>
LowerOf == <<"a","b","c","d","e","f","g","h","i","j","k","l","m",
             "n","o","p","q","r","s","t","u","v","w","x","y","z">>

\* str.lower()
lower(s) ==
    [i \in 1..Len(s) |->
        IF s[i] \in Range(Upper)
        THEN LowerOf[CHOOSE k \in 1..26 : Upper[k] = s[i]]
        ELSE s[i]]

\* str.endswith(suffix)
endswith(s, suffix) ==
    /\ Len(suffix) <= Len(s)
    /\ SubSeq(s, Len(s) - Len(suffix) + 1, Len(s)) = suffix

MEDIA_EXT == {<<".","j","p","g">>, <<".","j","p","e","g">>, <<".","p","n","g">>,
              <<".","m","p","4">>, <<".","m","o","v">>}

VIDEO_EXT == {<<".","m","p","4">>, <<".","m","o","v">>}

ZIP_EXT == <<".","z","i","p">>

\* name.lower().endswith(MEDIA_EXT)
IsMedia(name) == \E e \in MEDIA_EXT : endswith(lower(name), e)

\* path.lower().endswith((".mp4", ".mov"))
IsVideo(name) == \E e \in VIDEO_EXT : endswith(lower(name), e)

IsZip(name) == endswith(lower(name), ZIP_EXT)

\* os.path.basename and os.path.join on component sequences
basename(path) == path[Len(path)]

join(dir, base) == Append(dir, base)

\* os.path.splitext: the extension starts at the last dot that is not among the
\* leading dots of the name
SplitAtDot(base, p) == <<SubSeq(base, 1, p - 1), SubSeq(base, p, Len(base))>>

SplitAt(base, dots) ==
    IF dots = {} THEN <<base, <<>>>>
    ELSE SplitAtDot(base, CHOOSE i \in dots : \A j \in dots : j <= i)

LeadingDots(base) ==
    CHOOSE k \in 0..Len(base) :
        /\ \A i \in 1..k : base[i] = "."
        /\ (k < Len(base) => base[k + 1] # ".")

splitext(base) ==
    SplitAt(base, {i \in (LeadingDots(base) + 1)..Len(base) : base[i] = "."})

-----------------------------------------------------------------------------
(* Calendar: datetime(y, mo, d) raises ValueError on an invalid date.      *)

IsLeap(y) == (y % 4 = 0 /\ y % 100 # 0) \/ y % 400 = 0

DaysInMonth(y, mo) ==
    IF mo = 2 THEN (IF IsLeap(y) THEN 29 ELSE 28)
    ELSE IF mo \in {4, 6, 9, 11} THEN 30 ELSE 31

ValidDate(y, mo, d) ==
    /\ y \in 1..9999
    /\ mo \in 1..12
    /\ d \in 1..DaysInMonth(y, mo)

-----------------------------------------------------------------------------
(* re.search of the date patterns.  A pattern is a sequence of atoms:      *)
(* a digit character matches itself and is captured, "D" is a captured \d, *)
(* "d" an uncaptured \d, "S" is [-_], "S?" is [-_]?.                       *)

IsSep(c) == c \in {"-", "_"}

NoMatch == <<FALSE, <<>>>>

RECURSIVE MatchFrom(_, _, _, _)
MatchFrom(s, i, pat, k) ==
    IF k > Len(pat) THEN <<TRUE, <<>>>>
    ELSE LET a == pat[k]
             here == i <= Len(s)
             rest == MatchFrom(s, i + 1, pat, k + 1)
             skip == MatchFrom(s, i, pat, k + 1)
         IN  CASE a = "D" ->
                    IF here /\ IsDigit(s[i]) /\ rest[1]
                    THEN <<TRUE, <<s[i]>> \o rest[2]>> ELSE NoMatch
               [] a = "d" ->
                    IF here /\ IsDigit(s[i]) /\ rest[1] THEN rest ELSE NoMatch
               [] a = "S" ->
                    IF here /\ IsSep(s[i]) /\ rest[1] THEN rest ELSE NoMatch
               [] a = "S?" ->
                    IF here /\ IsSep(s[i]) /\ rest[1] THEN rest ELSE skip
               [] OTHER ->
                    IF here /\ s[i] = a /\ rest[1]
                    THEN <<TRUE, <<s[i]>> \o rest[2]>> ELSE NoMatch

\* re.search: the leftmost position at which the pattern matches
FirstHit(pat, s, hits) ==
    IF hits = {} THEN NoMatch
    ELSE MatchFrom(s, CHOOSE i \in hits : \A j \in hits : i <= j, pat, 1)

re_search(pat, s) == FirstHit(pat, s, {i \in 1..Len(s) : MatchFrom(s, i, pat, 1)[1]})

\* the three groups of a match as integers
Groups(m) ==
    <<IntOf(SubSeq(m[2], 1, 4)), IntOf(SubSeq(m[2], 5, 6)), IntOf(SubSeq(m[2], 7, 8))>>

\* datetime(y, mo, d), None where it raises
DateOrNone_unchecked(g) == g

DateOrNone(g) == IF ValidDate(g[1], g[2], g[3]) THEN g ELSE None

PAT_GT == <<"2","0","D","D","S?","D","D","S?","D","D">>

\* the date of a match, None without a match
DateOfMatch(m) == IF m[1] THEN DateOrNone(Groups(m)) ELSE None

\* google_takeout_organizer_final.datetime_from_filename
gt_datetime_from_filename(filename) == DateOfMatch(re_search(PAT_GT, filename))

patterns == <<
    <<"2","0","D","D","D","D","D","D">>,
    <<"2","0","D","D","S","D","D","S","D","D">>,
    <<"2","0","D","D","D","D","D","D","S","d","d","d","d","d","d">> >>

\* sort_photo.datetime_from_filename: the first pattern that matches AND gives a
\* valid date decides
RECURSIVE sp_from_patterns(_, _)
sp_from_patterns(filename, k) ==
    IF k > Len(patterns) THEN None
    ELSE IF DateOfMatch(re_search(patterns[k], filename)) # None
    THEN DateOfMatch(re_search(patterns[k], filename))
    ELSE sp_from_patterns(filename, k + 1)

sp_datetime_from_filename(filename) == sp_from_patterns(filename, 1)

-----------------------------------------------------------------------------
(* Files.  A content is what the bytes of a file hold: an identity, what   *)
(* exifread finds in them and what ffprobe reports about them.  A source   *)
(* file has a name, a content, a sidecar (the file path + ".json"), what   *)
(* os.path.getmtime gives and whether its bytes can be read; an archive    *)
(* has a name and members.                                                 *)

Chars_source == <<"s","o","u","r","c","e">>
Chars_photo == <<"p","h","o","t","o">>
Chars_final == <<"f","i","n","a","l">>
Chars_tmp == <<"t","m","p">>
Chars_unclassified == <<"u","n","c","l","a","s","s","i","f","i","e","d">>

SOURCE_DIR == <<Chars_source>>
TMP_DIR == <<Chars_tmp>>
SP_TARGET_DIR == <<Chars_photo>>
UNCLASSIFIED_DIR == join(SP_TARGET_DIR, Chars_unclassified)
GT_TARGET_DIR == <<Chars_final>>

\* os.path.join(root, f) of the i-th file of the walk: every file of the tree
\* lies in a directory of its own, named by its position
SourcePath(i) == <<Chars_source, StrOfInt(i), source[i].name>>

\* z.extract(name, TMP_DIR)
ExtractPath(name) == join(TMP_DIR, name)

NoSidecar == [status |-> "absent", ts |-> None, geoData |-> None, geoDataExif |-> None]

\* the file z.extract writes: the member's bytes, no sidecar beside it, and the
\* time of extraction as its mtime
NowDate == <<2026, 1, 15>>

Extracted(m) ==
    [name |-> m.name, content |-> m.content, sidecar |-> NoSidecar,
     mtime |-> NowDate, readable |-> TRUE]

\* the file a path names, t being the content of TMP_DIR
FileAt(path, t) == IF path[1] = Chars_tmp THEN t[path] ELSE source[IntOf(path[2])]

\* hashlib.sha256 of the bytes: equal for equal bytes, and collision free
Sha256(content) == <<"sha256", content>>

\* sort_photo.file_hash
file_hash(path, t) == Sha256(FileAt(path, t).content)

-----------------------------------------------------------------------------
(* safe_copy: the destination is the base name, or the first of            *)
(* name_1.ext, name_2.ext, ... that does not exist yet.                    *)

Numbered(dest_dir, name, ext, i) == join(dest_dir, name \o <<"_">> \o StrOfInt(i) \o ext)

RECURSIVE ProbeDest(_, _, _, _, _)
ProbeDest(dest_dir, name, ext, i, tree) ==
    IF Numbered(dest_dir, name, ext, i) \in DOMAIN tree
    THEN ProbeDest(dest_dir, name, ext, i + 1, tree)
    ELSE Numbered(dest_dir, name, ext, i)

\* the destination taken without looking whether it exists
FirstFree_unchecked(dest_dir, base, ne, tree) == join(dest_dir, base)

FirstFree(dest_dir, base, ne, tree) ==
    IF join(dest_dir, base) \in DOMAIN tree
    THEN ProbeDest(dest_dir, ne[1], ne[2], 1, tree)
    ELSE join(dest_dir, base)

safe_copy_dest(src, dest_dir, tree) ==
    FirstFree(dest_dir, basename(src), splitext(basename(src)), tree)

\* the tree after shutil.copy2(src, dest)
copy2(src, dest, tree, t) == Put(tree, dest, FileAt(src, t).content)

\* os.path.join(TARGET_DIR, str(dt.year), f"{dt.month:02}", f"{dt.day:02}")
DayDir(root, dt) == root \o <<StrOfInt(dt[1]), Pad2(dt[2]), Pad2(dt[3])>>

-----------------------------------------------------------------------------
(* The metadata sources.  Each returns what it found and the entries it    *)
(* appended to the logs.                                                   *)

Entry(path, note) == [path |-> path, note |-> note]

\* sort_photo.read_exif
sp_exif_of(path, f, x) ==
    IF ~f.readable \/ x.status = "raise"
    THEN [dt |-> None, fmt |-> <<>>, corrupt |-> <<Entry(path, "exception")>>]
    ELSE IF x.status = "fmt"
    THEN [dt |-> None, fmt |-> <<path>>, corrupt |-> <<>>]
    ELSE [dt |-> x.dt, fmt |-> <<>>,
          corrupt |-> IF x.status = "corrupt" THEN <<Entry(path, "")>> ELSE <<>>]

sp_read_exif(path, t) == sp_exif_of(path, FileAt(path, t), FileAt(path, t).content.exif)

\* sort_photo.read_metadata_json
JsonPath(path) == path \o <<<<".","j","s","o","n">>>>

sp_json_of(path, sc) ==
    IF sc.status = "absent" THEN [dt |-> None, corrupt |-> <<>>]
    ELSE IF sc.status = "bad"
    THEN [dt |-> None, corrupt |-> <<Entry(JsonPath(path), "exception")>>]
    ELSE [dt |-> sc.ts, corrupt |-> <<>>]

sp_read_metadata_json(path, t) == sp_json_of(path, FileAt(path, t).sidecar)

\* datetime.fromtimestamp(os.path.getmtime(path)), None where it raises
mtime_or_none(path, t) == FileAt(path, t).mtime

\* line 127: filename_fallback_files.append(path)
sp_fallback_entry(path) == <<path>>

SpRes(dt, src, consulted, fmt, corrupt, fallback) ==
    [dt |-> dt, src |-> src, consulted |-> consulted, fmt |-> fmt,
     corrupt |-> corrupt, fallback |-> fallback]

\* process_media returned or raised before it called the resolver
NotResolved == SpRes(None, "notcalled", <<>>, <<>>, <<>>, <<>>)

sp_resolve_from(path, e, j, n, m) ==
    IF e.dt # None
    THEN SpRes(e.dt, "exif", <<"exif">>, e.fmt, e.corrupt, <<>>)
    ELSE IF j.dt # None
    THEN SpRes(j.dt, "json", <<"exif", "json">>, e.fmt, e.corrupt \o j.corrupt, <<>>)
    ELSE IF n # None
    THEN SpRes(n, "filename", <<"exif", "json", "filename">>, e.fmt,
               e.corrupt \o j.corrupt, sp_fallback_entry(path))
    ELSE SpRes(m, IF m # None THEN "mtime" ELSE "none",
               <<"exif", "json", "filename", "mtime">>, e.fmt,
               e.corrupt \o j.corrupt, <<>>)

\* sort_photo.resolve_datetime
sp_resolve_datetime(path, t) ==
    sp_resolve_from(path, sp_read_exif(path, t), sp_read_metadata_json(path, t),
                    sp_datetime_from_filename(basename(path)), mtime_or_none(path, t))

-----------------------------------------------------------------------------
(* sort_photo.process_media, as the state after the call.  st holds the    *)
(* module's globals, the target tree and TMP_DIR.                          *)

SortState ==
    [hash_index |-> hash_index, target |-> target, tmp |-> tmp,
     duplicate_files |-> duplicate_files,
     unclassified_files |-> unclassified_files,
     file_format_errors |-> file_format_errors,
     corrupted_exif_files |-> corrupted_exif_files,
     filename_fallback_files |-> filename_fallback_files]

\* line 139: h in hash_index
is_duplicate_never(h, index) == FALSE

is_duplicate(h, index) == h \in DOMAIN index

\* line 140: f"{path} -> {hash_index[h]}"
duplicate_record_self(path, h, index) == [src |-> path, prior |-> path]

duplicate_record(path, h, index) == [src |-> path, prior |-> index[h]]

\* line 147: hash_index[h] = dest, after an unclassified placement
record_unclassified_not(index, h, dest) == index

record_unclassified(index, h, dest) == Put(index, h, dest)

\* an index that holds the new entry alone
record_filed_alone(index, h, dest) == Put(EmptyMap, h, dest)

\* line 154: hash_index[h] = dest, after a placement in a day folder
record_filed(index, h, dest) == Put(index, h, dest)

sp_placed(path, st, h, r, dest) ==
    [st |-> [st EXCEPT
                !.file_format_errors = @ \o r.fmt,
                !.corrupted_exif_files = @ \o r.corrupt,
                !.filename_fallback_files = @ \o r.fallback,
                !.unclassified_files = IF r.dt = None THEN Append(@, path) ELSE @,
                !.target = copy2(path, dest, @, st.tmp),
                !.hash_index = IF r.dt = None
                               THEN record_unclassified(@, h, dest)
                               ELSE record_filed(@, h, dest)],
     raised |-> FALSE, res |-> r]

sp_resolved(path, st, h, r) ==
    sp_placed(path, st, h, r,
              safe_copy_dest(path,
                             IF r.dt = None THEN UNCLASSIFIED_DIR
                             ELSE DayDir(SP_TARGET_DIR, r.dt),
                             st.target))

sp_hashed(path, st, h) ==
    IF is_duplicate(h, st.hash_index)
    THEN [st |-> [st EXCEPT !.duplicate_files =
                      Append(@, duplicate_record(path, h, st.hash_index))],
          raised |-> FALSE, res |-> NotResolved]
    ELSE sp_resolved(path, st, h, sp_resolve_datetime(path, st.tmp))

\* the state after the call, whether it raised, and what resolve_datetime
\* returned to it
sp_process_media(path, st) ==
    IF ~FileAt(path, st.tmp).readable
    THEN \* file_hash raises: nothing was changed
         [st |-> st, raised |-> TRUE, res |-> NotResolved]
    ELSE sp_hashed(path, st, file_hash(path, st.tmp))

-----------------------------------------------------------------------------
(* Coordinates.  One degree is 360000 units, one minute 6000, 0.01 arc     *)
(* second 1; 0.001 degree is 360 units and 0.0001 degree 36.               *)

Deg == 360000
Min == 6000

Coord(neg, mag) == <<neg, mag>>

\* abs(x) < 0.001
NearZero(x) == x[2] < 360

\* round(x, 4): the nearest multiple of 0.0001 degree, the sign kept (round(-0.00001, 4)
\* is -0.0); a value half way between two multiples goes to the even one
Round4(x) ==
    LET q == x[2] \div 36
        r == x[2] % 36
        up == r > 18 \/ (r = 18 /\ q % 2 = 1)
    IN  Coord(x[1], 36 * (IF up THEN q + 1 ELSE q))

\* line 177: f"{round(lat,4)},{round(lon,4)}"; the text of a float tells its sign
\* and its value, so the key is the pair of rounded components
geo_key(lat, lon) == <<Round4(lat), Round4(lon)>>

\* test_function.convert_to_decimal on a list of degrees, minutes and seconds,
\* the seconds given in hundredths
convert_to_decimal(dms_list) == dms_list[1] * Deg + dms_list[2] * Min + dms_list[3]

\* lines 95-97: conv of a degrees/minutes/seconds tag, the seconds given in
\* hundredths
conv(v) == v[1] * Deg + v[2] * Min + v[3]

\* lines 89-104: the coordinate of the four GPS tags, None unless all are there
\* (a tag that is missing is None, a reference that is missing the empty text);
\* the value is negated unless the reference is "N", resp. "E"
\* the negation applied on the wrong hemisphere
negate_if_north(ref, north) == ref = north

negate_unless(ref, north) == ref # north

exif_gps(g) ==
    IF g.lat = None \/ g.lon = None \/ g.lat_ref = "" \/ g.lon_ref = ""
    THEN None
    ELSE <<Coord(negate_unless(g.lat_ref, "N"), conv(g.lat)),
           Coord(negate_unless(g.lon_ref, "E"), conv(g.lon))>>

-----------------------------------------------------------------------------
(* google_takeout_organizer_final: the metadata sources.                   *)

\* read_exif
gt_exif_of(path, f, x) ==
    IF ~f.readable \/ x.status = "raise"
    THEN [dt |-> None, gps |-> None, fmt |-> <<>>,
          corrupt |-> <<Entry(path, "exception")>>]
    ELSE IF x.status = "fmt"
    THEN [dt |-> None, gps |-> None, fmt |-> <<path>>, corrupt |-> <<>>]
    ELSE [dt |-> x.dt, gps |-> exif_gps(x.gps), fmt |-> <<>>,
          corrupt |-> IF x.status = "corrupt" THEN <<Entry(path, "")>> ELSE <<>>]

gt_read_exif(path, t) == gt_exif_of(path, FileAt(path, t), FileAt(path, t).content.exif)

\* line 120: data.get("geoData") or data.get("geoDataExif")
first_geo(sc) == IF sc.geoData # None THEN sc.geoData ELSE sc.geoDataExif

\* line 122: a latitude of 0.0 (or -0.0) is falsy
geo_pair(geo) == IF geo # None /\ geo[1][2] # 0 THEN geo ELSE None

\* read_metadata_json
gt_json_of(path, sc) ==
    IF sc.status = "absent" THEN [dt |-> None, gps |-> None, corrupt |-> <<>>]
    ELSE IF sc.status = "bad"
    THEN [dt |-> None, gps |-> None,
          corrupt |-> <<Entry(JsonPath(path), "exception")>>]
    ELSE [dt |-> sc.ts, gps |-> geo_pair(first_geo(sc)), corrupt |-> <<>>]

gt_read_metadata_json(path, t) == gt_json_of(path, FileAt(path, t).sidecar)

\* read_video_time: the creation time ffprobe prints; in every other case the
\* path is appended to ffprobe_failed
gt_video_of(path, v) ==
    IF v.status = "hang"
    THEN \* subprocess.run has no timeout: the call does not return
         [dt |-> None, ffprobe |-> <<>>, hang |-> TRUE]
    ELSE IF v.status = "ok" /\ v.dt # None
    THEN [dt |-> v.dt, ffprobe |-> <<>>, hang |-> FALSE]
    ELSE [dt |-> None, ffprobe |-> <<path>>, hang |-> FALSE]

gt_read_video_time(path, t) == gt_video_of(path, FileAt(path, t).content.video)

\* the order of the sources in resolve_datetime_and_gps
GtRes(dt, gps, src, consulted, fmt, corrupt, ffprobe, fallback, unclassified) ==
    [dt |-> dt, gps |-> gps, src |-> src, consulted |-> consulted,
     fmt |-> fmt, corrupt |-> corrupt, ffprobe |-> ffprobe,
     fallback |-> fallback, unclassified |-> unclassified]

\* lines 154-155: the video probe runs for the video extensions only
VIDEO_TAG(path) == IF IsVideo(basename(path)) THEN <<"video">> ELSE <<>>

probe_video(path, t) ==
    IF IsVideo(basename(path)) THEN gt_read_video_time(path, t)
    ELSE [dt |-> None, ffprobe |-> <<>>, hang |-> FALSE]

\* lines 159-162 with the anomaly left out
fallback_entry_none(path) == <<>>

\* line 161: filename_fallback_files.append(path)
fallback_entry(path) == <<path>>

\* the coordinate returned beside a timestamp of the video probe, the file name
\* or the mtime: lines 157, 162, 165
late_gps_kept(e, j) == IF e.gps # None THEN e.gps ELSE j.gps

late_gps(e, j) == None

\* resolve_datetime_and_gps: the timestamp, the coordinate, the source that gave
\* the timestamp, the sources read, and the entries appended to the logs
gt_resolve_from(path, e, j, v, n, m, vs) ==
    IF e.dt # None
    THEN GtRes(e.dt, e.gps, "exif", <<"exif">>, e.fmt, e.corrupt, <<>>, <<>>, <<>>)
    ELSE IF j.dt # None
    THEN GtRes(j.dt, j.gps, "json", <<"exif", "json">>, e.fmt,
               e.corrupt \o j.corrupt, <<>>, <<>>, <<>>)
    ELSE IF v.hang
    THEN \* the resolver waits in read_video_time
         GtRes(None, None, "blocked", <<"exif", "json", "video">>, e.fmt,
               e.corrupt \o j.corrupt, <<>>, <<>>, <<>>)
    ELSE IF v.dt # None
    THEN GtRes(v.dt, late_gps(e, j), "video", <<"exif", "json", "video">>, e.fmt,
               e.corrupt \o j.corrupt, v.ffprobe, <<>>, <<>>)
    ELSE IF n # None
    THEN GtRes(n, late_gps(e, j), "filename",
               <<"exif", "json">> \o vs \o <<"filename">>, e.fmt,
               e.corrupt \o j.corrupt, v.ffprobe, fallback_entry(path), <<>>)
    ELSE IF m # None
    THEN GtRes(m, late_gps(e, j), "mtime",
               <<"exif", "json">> \o vs \o <<"filename", "mtime">>, e.fmt,
               e.corrupt \o j.corrupt, v.ffprobe, <<>>, <<>>)
    ELSE GtRes(None, None, "none",
               <<"exif", "json">> \o vs \o <<"filename", "mtime">>, e.fmt,
               e.corrupt \o j.corrupt, v.ffprobe, <<>>, <<path>>)

\* the resolver with the sidecar asked before the embedded metadata
gt_resolve_json_first(path, t) ==
    gt_resolve_from(path, gt_read_metadata_json(path, t) @@ [fmt |-> <<>>],
                    gt_read_exif(path, t), probe_video(path, t),
                    gt_datetime_from_filename(basename(path)),
                    mtime_or_none(path, t), VIDEO_TAG(path))

gt_resolve_datetime_and_gps(path, t) ==
    gt_resolve_from(path, gt_read_exif(path, t), gt_read_metadata_json(path, t),
                    probe_video(path, t), gt_datetime_from_filename(basename(path)),
                    mtime_or_none(path, t), VIDEO_TAG(path))

-----------------------------------------------------------------------------
(* google_takeout_organizer_final.reverse_geocode_city_offline.  The       *)
(* backend's answer to rg.search is an input of the call: a place, an      *)
(* empty result, a result without name or cc, or an exception.             *)

Place(city, cc) == <<city, cc>>

Answer(kind, place) == [kind |-> kind, place |-> place]

BackendAnswers ==
    { Answer("place", Place("Taipei", "TW")), Answer("place", Place("Tokyo", "JP")),
      Answer("empty", None), Answer("nofields", None), Answer("raise", None) }

Failure(lat, lon, note) == [lat |-> lat, lon |-> lon, note |-> note]

\* line 173: abs(lat) < 0.001 and abs(lon) < 0.001
is_zero_coordinate_never(lat, lon) == FALSE

is_zero_coordinate(lat, lon) == NearZero(lat) /\ NearZero(lon)

\* line 199: geo_cache[key] = None in the except clause
cache_after_exception_unwritten(cache, key) == cache

cache_after_exception(cache, key) == Put(cache, key, None)

\* a count that is set, not incremented
Bump_once(counts, k) == Put(counts, k, 1)

Bump(counts, k) == Put(counts, k, IF k \in DOMAIN counts THEN counts[k] + 1 ELSE 1)

\* lines 181-200: the key is not in the cache and rg.search is called
geocode_miss(lat, lon, key, asked, answer) ==
    IF answer.kind = "empty"
    THEN [ret |-> None,
          st |-> [asked EXCEPT
                     !.reverse_geocode_failed = Append(@, Failure(lat, lon, "no result")),
                     !.geo_cache = Put(@, key, None)]]
    ELSE IF answer.kind = "raise"
    THEN [ret |-> None,
          st |-> [asked EXCEPT
                     !.reverse_geocode_failed = Append(@, Failure(lat, lon, "exception")),
                     !.geo_cache = cache_after_exception(@, key)]]
    ELSE IF answer.kind = "nofields"
    THEN [ret |-> None, st |-> [asked EXCEPT !.geo_cache = Put(@, key, None)]]
    ELSE [ret |-> answer.place,
          st |-> [asked EXCEPT !.geo_cache = Put(@, key, answer.place)]]

\* returns the place or None, and the state after the call
reverse_geocode_city_offline(lat, lon, st, answer) ==
    IF is_zero_coordinate(lat, lon)
    THEN [ret |-> None,
          st |-> [st EXCEPT !.reverse_geocode_failed = Append(@, Failure(lat, lon, "zero"))]]
    ELSE IF geo_key(lat, lon) \in DOMAIN st.geo_cache
    THEN [ret |-> st.geo_cache[geo_key(lat, lon)], st |-> st]
    ELSE geocode_miss(lat, lon, geo_key(lat, lon),
                      [st EXCEPT !.backend_calls = Bump(@, geo_key(lat, lon))], answer)

-----------------------------------------------------------------------------
(* google_takeout_organizer_final.process_media                            *)

GTState ==
    [target |-> target, tmp |-> tmp, geo_cache |-> geo_cache,
     file_format_errors |-> file_format_errors,
     corrupted_exif_files |-> corrupted_exif_files,
     unclassified_files |-> unclassified_files,
     filename_fallback_files |-> filename_fallback_files,
     reverse_geocode_failed |-> reverse_geocode_failed,
     ffprobe_failed |-> ffprobe_failed,
     gps_points |-> gps_points, gps_by_day |-> gps_by_day,
     year_city_count |-> year_city_count, city_total_count |-> city_total_count,
     backend_calls |-> backend_calls]

NoGeo == [asked |-> FALSE, lat |-> None, lon |-> None, ret |-> None, files |-> {}]

CountsOf(by_year, year) == IF year \in DOMAIN by_year THEN by_year[year] ELSE EmptyMap

\* lines 218-221
Aggregate(st, gps, dt, day_dir, place) ==
    [st EXCEPT
        !.gps_points = Append(@, <<gps[1], gps[2], dt, place>>),
        !.gps_by_day = Put(@, day_dir,
                           (IF day_dir \in DOMAIN @ THEN @[day_dir] ELSE {}) \cup {place}),
        !.year_city_count = Put(@, dt[1], Bump(CountsOf(@, dt[1]), place)),
        !.city_total_count = Bump(@, place)]

\* what the lookup was given and returned; files: the files of the target tree
\* when it was called
Geo(gps, ret, files) ==
    [asked |-> TRUE, lat |-> gps[1], lon |-> gps[2], ret |-> ret, files |-> files]

\* lines 214-221; the lookup writes no file
gt_geocoded(r, day_dir, g) ==
    [st |-> IF g.ret = None THEN g.st ELSE Aggregate(g.st, r.gps, r.dt, day_dir, g.ret),
     raised |-> FALSE, res |-> r, geo |-> Geo(r.gps, g.ret, DOMAIN g.st.target)]

\* lines 211-214
gt_copied(r, day_dir, copied, answer) ==
    IF r.gps = None
    THEN [st |-> copied, raised |-> FALSE, res |-> r, geo |-> NoGeo]
    ELSE gt_geocoded(r, day_dir,
                     reverse_geocode_city_offline(r.gps[1], r.gps[2], copied, answer))

\* the lookup made before the copy
gt_resolved_geocode_first(path, st, logged, r, answer) ==
    IF r.dt = None
    THEN [st |-> logged, raised |-> FALSE, res |-> r, geo |-> NoGeo]
    ELSE IF ~FileAt(path, st.tmp).readable
    THEN [st |-> logged, raised |-> TRUE, res |-> r, geo |-> NoGeo]
    ELSE [gt_copied(r, DayDir(GT_TARGET_DIR, r.dt), logged, answer) EXCEPT
             !.st.target = copy2(path,
                                 safe_copy_dest(path, DayDir(GT_TARGET_DIR, r.dt),
                                                st.target),
                                 @, st.tmp)]

\* lines 205-209
gt_resolved(path, st, logged, r, answer) ==
    IF r.dt = None
    THEN [st |-> logged, raised |-> FALSE, res |-> r, geo |-> NoGeo]
    ELSE IF ~FileAt(path, st.tmp).readable
    THEN \* shutil.copy2 raises
         [st |-> logged, raised |-> TRUE, res |-> r, geo |-> NoGeo]
    ELSE gt_copied(r, DayDir(GT_TARGET_DIR, r.dt),
                   [logged EXCEPT
                       !.target = copy2(path,
                                        safe_copy_dest(path, DayDir(GT_TARGET_DIR, r.dt),
                                                       st.target),
                                        @, st.tmp)],
                   answer)

\* line 204, with the entries the sources appended to the logs
gt_logged(path, st, r, answer) ==
    gt_resolved(path, st,
                [st EXCEPT
                    !.file_format_errors = @ \o r.fmt,
                    !.corrupted_exif_files = @ \o r.corrupt,
                    !.ffprobe_failed = @ \o r.ffprobe,
                    !.filename_fallback_files = @ \o r.fallback,
                    !.unclassified_files = @ \o r.unclassified],
                r, answer)

\* the state after the call, whether it raised, and what resolve_datetime_and_gps
\* and reverse_geocode_city_offline returned to it
gt_process_media(path, st, answer) ==
    gt_logged(path, st, gt_resolve_datetime_and_gps(path, st.tmp), answer)

-----------------------------------------------------------------------------
(* The source trees of the model.                                          *)

N_family == <<"2","0","2","2","0","1","0","1","_","f","a","m","i","l","y",".","j","p","g">>
N_badmonth == <<"I","M","G","_","2","0","2","3","1","3","0","5",".","j","p","g">>
N_img == <<"I","M","G","_","2","0","2","3","0","4","0","5","_","1","2","0","0","0","0",".","j","p","g">>
N_photo == <<"p","h","o","t","o",".","J","P","G">>
N_notes == <<"n","o","t","e","s",".","t","x","t">>
N_zip_a == <<"a",".","z","i","p">>
N_zip_b == <<"b",".","Z","I","P">>

NoVideo == [status |-> "empty", dt |-> None]

Exif(status, dt, gps) == [status |-> status, dt |-> dt, gps |-> gps]

Content(id, exif) == [id |-> id, exif |-> exif, video |-> NoVideo]

Tags(lat, lat_ref, lon, lon_ref) ==
    [lat |-> lat, lat_ref |-> lat_ref, lon |-> lon, lon_ref |-> lon_ref]

NoTags == Tags(None, "", None, "")

C_plain == Content(1, Exif("ok", None, NoTags))
C_dated == Content(2, Exif("ok", <<2022, 1, 1>>, NoTags))
C_png == Content(3, Exif("fmt", None, NoTags))

File(name, content, sidecar, mtime, readable) ==
    [name |-> name, content |-> content, sidecar |-> sidecar, mtime |-> mtime,
     readable |-> readable]

Sidecar(ts) == [status |-> "ok", ts |-> ts, geoData |-> None, geoDataExif |-> None]

Member(name, content, corrupt) == [name |-> name, content |-> content, corrupt |-> corrupt]

Archive(name, members) == [name |-> name, members |-> members]

SortFiles ==
    { File(N_family, C_plain, NoSidecar, <<2022, 6, 1>>, TRUE),
      File(N_photo, C_plain, Sidecar(<<2021, 12, 31>>), <<2022, 6, 1>>, TRUE),
      File(N_photo, C_dated, NoSidecar, <<2022, 6, 1>>, TRUE),
      File(N_photo, C_png, NoSidecar, <<2022, 1, 1>>, TRUE),
      File(N_badmonth, C_png, NoSidecar, None, TRUE),
      File(N_photo, C_dated, NoSidecar, <<2022, 6, 1>>, FALSE),
      File(N_notes, C_plain, NoSidecar, <<2022, 6, 1>>, TRUE),
      Archive(N_zip_a, << Member(N_family, C_plain, FALSE),
                          Member(N_notes, C_plain, FALSE),
                          Member(N_photo, C_dated, FALSE) >>),
      Archive(N_zip_b, << Member(N_photo, C_png, FALSE),
                          Member(N_img, C_plain, TRUE),
                          Member(N_family, C_dated, FALSE) >>) }

Trees(files, n) == UNION {[1..k -> files] : k \in 1..n}

-----------------------------------------------------------------------------
(* sort_photo.main                                                         *)

GTIdle ==
    /\ tasks = <<>>
    /\ geo_cache = EmptyMap
    /\ geo_cache_file = None
    /\ reverse_geocode_failed = <<>>
    /\ ffprobe_failed = <<>>
    /\ gps_points = <<>>
    /\ gps_by_day = EmptyMap
    /\ year_city_count = EmptyMap
    /\ city_total_count = EmptyMap
    /\ backend_calls = EmptyMap

SPIdle ==
    /\ hash_index = EmptyMap
    /\ hash_db = None
    /\ duplicate_files = <<>>

gt_vars == <<tasks, geo_cache, geo_cache_file, reverse_geocode_failed,
             ffprobe_failed, gps_points, gps_by_day, year_city_count,
             city_total_count, backend_calls>>

sp_vars == <<hash_index, hash_db, duplicate_files>>

rr_vars == <<processed_hashes>>

sp_logs == <<duplicate_files, unclassified_files, file_format_errors,
             corrupted_exif_files, filename_fallback_files>>

InitCommon ==
    /\ pc = "idle"
    /\ run = 0
    /\ walk_i = 1
    /\ zip_j = 1
    /\ task_i = 1
    /\ target = EmptyMap
    /\ tmp = EmptyMap
    /\ unclassified_files = <<>>
    /\ file_format_errors = <<>>
    /\ corrupted_exif_files = <<>>
    /\ filename_fallback_files = <<>>
    /\ calls = <<>>
    /\ history = <<>>
    /\ processed_hashes = {}

SortInit ==
    /\ prog = "sort"
    /\ source \in Trees(SortFiles, MaxFiles)
    /\ InitCommon
    /\ SPIdle
    /\ GTIdle

\* line 172: hash_index.update(json.load(f)) on the empty index of a new process
load_hash_db_not(db) == EmptyMap

load_hash_db(db) == IF db = None THEN EmptyMap ELSE db[1]

\* Observation of one process_media call, taken from the state before it and
\* the state after it: the digest of the bytes it was given (None when they
\* cannot be read), whether that digest was a key of hash_index, the files
\* it created and the existing files it changed in the target tree, the
\* index entry of the digest before and after, and the records it appended.
Appended(before, after) == SubSeq(after, Len(before) + 1, Len(after))

IndexAt(index, h) == IF h \in DOMAIN index THEN <<index[h]>> ELSE None

\* what each source of sort_photo's resolver holds for the file
SpSources(path, t) ==
    [exif |-> sp_read_exif(path, t).dt,
     json |-> sp_read_metadata_json(path, t).dt,
     video |-> None,
     filename |-> sp_datetime_from_filename(basename(path)),
     mtime |-> mtime_or_none(path, t)]

ObserveDigest(path, before, after, raised, res, h) ==
    [path |-> path, file |-> FileAt(path, before.tmp), h |-> h, raised |-> raised,
     dt |-> res.dt, src |-> res.src, consulted |-> res.consulted,
     sources |-> SpSources(path, before.tmp),
     known |-> h \in DOMAIN before.hash_index,
     created |-> DOMAIN after.target \ DOMAIN before.target,
     changed |-> {q \in DOMAIN before.target : after.target[q] # before.target[q]},
     prior |-> IndexAt(before.hash_index, h),
     indexed |-> IndexAt(after.hash_index, h),
     index_kept |-> after.hash_index = before.hash_index,
     dups |-> Appended(before.duplicate_files, after.duplicate_files),
     unclassified |-> Appended(before.unclassified_files, after.unclassified_files),
     fallback |-> Appended(before.filename_fallback_files, after.filename_fallback_files)]

Observe(path, before, r) ==
    ObserveDigest(path, before, r.st, r.raised, r.res,
                  IF FileAt(path, before.tmp).readable
                  THEN Sha256(FileAt(path, before.tmp).content) ELSE None)

\* the module's globals as a new process has them, then lines 167-172 of main
SP_Start ==
    /\ prog = "sort"
    /\ pc \in {"idle", "done"}
    /\ run < MaxRuns
    /\ run' = run + 1
    /\ pc' = "walk"
    /\ walk_i' = 1
    /\ zip_j' = 1
    /\ hash_index' = load_hash_db(hash_db)
    /\ duplicate_files' = <<>>
    /\ unclassified_files' = <<>>
    /\ file_format_errors' = <<>>
    /\ corrupted_exif_files' = <<>>
    /\ filename_fallback_files' = <<>>
    /\ calls' = <<>>
    /\ UNCHANGED <<source, task_i, prog, target, tmp, hash_db, history>>
    /\ UNCHANGED gt_vars
    /\ UNCHANGED rr_vars

SetSortState(st) ==
    /\ hash_index' = st.hash_index
    /\ tmp' = st.tmp
    /\ target' = st.target
    /\ duplicate_files' = st.duplicate_files
    /\ unclassified_files' = st.unclassified_files
    /\ file_format_errors' = st.file_format_errors
    /\ corrupted_exif_files' = st.corrupted_exif_files
    /\ filename_fallback_files' = st.filename_fallback_files

\* main's except clause
LogUnknown(st, path) ==
    [st EXCEPT !.corrupted_exif_files = Append(@, Entry(path, "UNKNOWN"))]

AtFile == prog = "sort" /\ pc = "walk" /\ walk_i <= Len(source)

\* the call of process_media inside main's try clause
SP_Call(path, before, r) ==
    /\ SetSortState(IF r.raised THEN LogUnknown(r.st, path) ELSE r.st)
    /\ calls' = Append(calls, Observe(path, before, r))

\* one iteration of the walk on a loose media file
SP_Media ==
    /\ AtFile
    /\ ~IsZip(source[walk_i].name)
    /\ IsMedia(source[walk_i].name)
    /\ SP_Call(SourcePath(walk_i), SortState,
               sp_process_media(SourcePath(walk_i), SortState))
    /\ walk_i' = walk_i + 1
    /\ UNCHANGED <<source, pc, run, zip_j, task_i, prog, hash_db, history>>
    /\ UNCHANGED gt_vars
    /\ UNCHANGED rr_vars

\* one iteration of the walk on a file that is neither an archive nor media, or
\* on an archive without members
SP_Other ==
    /\ AtFile
    /\ IF IsZip(source[walk_i].name)
       THEN source[walk_i].members = <<>>
       ELSE ~IsMedia(source[walk_i].name)
    /\ walk_i' = walk_i + 1
    /\ UNCHANGED <<source, pc, run, zip_j, task_i, prog, target, tmp, hash_db, history, calls>>
    /\ UNCHANGED <<hash_index, unclassified_files, file_format_errors,
                   corrupted_exif_files, filename_fallback_files, duplicate_files>>
    /\ UNCHANGED gt_vars
    /\ UNCHANGED rr_vars

\* process_zip, one member of namelist() at a time; an exception leaves the
\* archive for main's except clause
SP_Member(z, m, more, extracted, before) ==
    IF ~IsMedia(m.name)
    THEN /\ walk_i' = IF more THEN walk_i ELSE walk_i + 1
         /\ zip_j' = IF more THEN zip_j + 1 ELSE 1
         /\ UNCHANGED <<target, tmp, calls>>
         /\ UNCHANGED <<hash_index, unclassified_files, file_format_errors,
                        corrupted_exif_files, filename_fallback_files,
                        duplicate_files>>
    ELSE IF m.corrupt
    THEN \* z.extract raises
         /\ SetSortState(LogUnknown(SortState, SourcePath(walk_i)))
         /\ walk_i' = walk_i + 1
         /\ zip_j' = 1
         /\ UNCHANGED calls
    ELSE /\ SP_Call(extracted, before, sp_process_media(extracted, before))
         /\ walk_i' = IF more THEN walk_i ELSE walk_i + 1
         /\ zip_j' = IF more THEN zip_j + 1 ELSE 1

SP_ZipMember ==
    /\ AtFile
    /\ IsZip(source[walk_i].name)
    /\ zip_j <= Len(source[walk_i].members)
    /\ SP_Member(source[walk_i], source[walk_i].members[zip_j],
                 zip_j < Len(source[walk_i].members),
                 ExtractPath(source[walk_i].members[zip_j].name),
                 [SortState EXCEPT
                     !.tmp = Put(@, ExtractPath(source[walk_i].members[zip_j].name),
                                 Extracted(source[walk_i].members[zip_j]))])
    /\ UNCHANGED <<source, pc, run, task_i, prog, hash_db, history>>
    /\ UNCHANGED gt_vars
    /\ UNCHANGED rr_vars

\* lines 185-198 of main: the index is written back
SP_Finish ==
    /\ prog = "sort"
    /\ pc = "walk"
    /\ walk_i > Len(source)
    /\ pc' = "done"
    /\ hash_db' = <<hash_index>>
    /\ history' = Append(history, [calls |-> calls, target |-> target,
                                   saved |-> hash_index])
    /\ UNCHANGED <<source, run, walk_i, zip_j, task_i, prog, target, tmp, calls>>
    /\ UNCHANGED <<hash_index, unclassified_files, file_format_errors,
                   corrupted_exif_files, filename_fallback_files, duplicate_files>>
    /\ UNCHANGED gt_vars
    /\ UNCHANGED rr_vars

SortNext == SP_Start \/ SP_Media \/ SP_Other \/ SP_ZipMember \/ SP_Finish

SpecSort == SortInit /\ [][SortNext]_vars

-----------------------------------------------------------------------------
(* google_takeout_organizer_final.main                                     *)

N_clip == <<"c","l","i","p",".","m","p","4">>
N_clipdate == <<"V","I","D","-","2","0","2","1","-","0","2","-","2","8",".","M","O","V">>

\* 25.033 N 121.5653 E, and a point 0.00003 degree north of it
GPS_taipei == Tags(<<25, 1, 5880>>, "N", <<121, 33, 5508>>, "E")
GPS_taipei2 == Tags(<<25, 1, 5890>>, "N", <<121, 33, 5508>>, "E")
\* 0.0003 S 0.0 E: no GPS fix
GPS_null == Tags(<<0, 0, 100>>, "S", <<0, 0, 0>>, "E")
\* 0.001003 N 0.0 W: just outside the zero band, and with a negative zero
GPS_edge == Tags(<<0, 0, 361>>, "N", <<0, 0, 0>>, "W")

\* 35.6762 N 139.6503 E as a sidecar gives it
Geo_tokyo == <<Coord(FALSE, 12843432), Coord(FALSE, 50274108)>>

GeoSidecar(ts, geoData, geoDataExif) ==
    [status |-> "ok", ts |-> ts, geoData |-> geoData, geoDataExif |-> geoDataExif]

G_taipei == Content(11, Exif("ok", <<2023, 4, 5>>, GPS_taipei))
G_taipei2 == Content(12, Exif("ok", <<2023, 4, 5>>, GPS_taipei2))
G_null == Content(13, Exif("ok", <<2023, 4, 6>>, GPS_null))

GTFiles ==
    { File(N_photo, G_taipei, NoSidecar, <<2022, 6, 1>>, TRUE),
      File(N_photo, G_taipei2, NoSidecar, <<2022, 6, 1>>, TRUE),
      File(N_img, G_null, NoSidecar, <<2022, 6, 1>>, TRUE),
      File(N_family, C_plain, GeoSidecar(<<2024, 7, 1>>, Geo_tokyo, None),
           <<2022, 6, 1>>, TRUE),
      File(N_photo, C_dated, NoSidecar, <<2022, 6, 1>>, FALSE),
      Archive(N_zip_a, << Member(N_photo, G_taipei, FALSE),
                          Member(N_notes, C_plain, FALSE),
                          Member(N_img, G_taipei2, FALSE) >>),
      Archive(N_zip_b, << Member(N_photo, C_dated, FALSE),
                          Member(N_img, C_plain, TRUE) >>) }

GTInit ==
    /\ prog = "gt"
    /\ source \in Trees(GTFiles, MaxTasks)
    /\ InitCommon
    /\ SPIdle
    /\ GTIdle

\* line 45: geo_cache = json.load(f)
load_geo_cache(file) == IF file = None THEN EmptyMap ELSE file[1]

\* the module's globals as a new process has them, then lines 281-285 of main
GT_Start ==
    /\ prog = "gt"
    /\ pc \in {"idle", "done", "crashed"}
    /\ run < MaxRuns
    /\ run' = run + 1
    /\ pc' = "walk"
    /\ walk_i' = 1
    /\ task_i' = 1
    /\ tasks' = <<>>
    /\ geo_cache' = load_geo_cache(geo_cache_file)
    /\ unclassified_files' = <<>>
    /\ file_format_errors' = <<>>
    /\ corrupted_exif_files' = <<>>
    /\ filename_fallback_files' = <<>>
    /\ reverse_geocode_failed' = <<>>
    /\ ffprobe_failed' = <<>>
    /\ gps_points' = <<>>
    /\ gps_by_day' = EmptyMap
    /\ year_city_count' = EmptyMap
    /\ city_total_count' = EmptyMap
    /\ backend_calls' = EmptyMap
    /\ calls' = <<>>
    /\ UNCHANGED <<source, zip_j, prog, target, tmp, geo_cache_file, history>>
    /\ UNCHANGED sp_vars
    /\ UNCHANGED rr_vars

\* lines 290-293: the media members of an archive are extracted one after the
\* other; the result is TMP_DIR and the task list after it, and whether
\* z.extract raised
RECURSIVE ExtractAll(_, _, _, _)
ExtractAll(members, k, t, ts) ==
    IF k > Len(members) THEN [tmp |-> t, tasks |-> ts, raised |-> FALSE]
    ELSE IF ~IsMedia(members[k].name) THEN ExtractAll(members, k + 1, t, ts)
    ELSE IF members[k].corrupt THEN [tmp |-> t, tasks |-> ts, raised |-> TRUE]
    ELSE ExtractAll(members, k + 1,
                    Put(t, ExtractPath(members[k].name), Extracted(members[k])),
                    Append(ts, ExtractPath(members[k].name)))

GT_Zip(x) ==
    /\ tmp' = x.tmp
    /\ tasks' = x.tasks
    /\ pc' = IF x.raised THEN "crashed" ELSE pc

\* lines 286-295: one file of the walk
GT_Discover ==
    /\ prog = "gt"
    /\ pc = "walk"
    /\ walk_i <= Len(source)
    /\ IF IsZip(source[walk_i].name)
       THEN GT_Zip(ExtractAll(source[walk_i].members, 1, tmp, tasks))
       ELSE /\ tasks' = IF IsMedia(source[walk_i].name)
                        THEN Append(tasks, SourcePath(walk_i))
                        ELSE tasks
            /\ UNCHANGED <<tmp, pc>>
    /\ walk_i' = walk_i + 1
    /\ UNCHANGED <<source, run, zip_j, task_i, prog, target, geo_cache, geo_cache_file,
                   unclassified_files, file_format_errors, corrupted_exif_files,
                   filename_fallback_files, reverse_geocode_failed, ffprobe_failed,
                   gps_points, gps_by_day, year_city_count, city_total_count,
                   backend_calls, calls, history>>
    /\ UNCHANGED sp_vars
    /\ UNCHANGED rr_vars

KeyCount(counts, key) == IF key \in DOMAIN counts THEN counts[key] ELSE 0

\* what each source of the resolver holds for the file
Sources(path, t) ==
    [exif |-> gt_read_exif(path, t).dt, exif_gps |-> gt_read_exif(path, t).gps,
     json |-> gt_read_metadata_json(path, t).dt,
     json_gps |-> gt_read_metadata_json(path, t).gps,
     video |-> gt_read_video_time(path, t).dt,
     filename |-> gt_datetime_from_filename(basename(path)),
     mtime |-> mtime_or_none(path, t)]

\* Observation of one process_media call, taken from the state before it, the
\* state after it and what the resolver and the geocoder returned to it
ObserveKey(path, before, r, key) ==
    [path |-> path, file |-> FileAt(path, before.tmp), raised |-> r.raised,
     dt |-> r.res.dt, gps |-> r.res.gps, src |-> r.res.src,
     consulted |-> r.res.consulted,
     sources |-> Sources(path, before.tmp),
     created |-> DOMAIN r.st.target \ DOMAIN before.target,
     changed |-> {q \in DOMAIN before.target : r.st.target[q] # before.target[q]},
     fallback |-> Appended(before.filename_fallback_files, r.st.filename_fallback_files),
     unclassified |-> Appended(before.unclassified_files, r.st.unclassified_files),
     ffprobe |-> Appended(before.ffprobe_failed, r.st.ffprobe_failed),
     corrupt |-> Appended(before.corrupted_exif_files, r.st.corrupted_exif_files),
     geo |-> r.geo,
     key |-> key,
     cached |-> key \in DOMAIN before.geo_cache,
     cache_kept |-> r.st.geo_cache = before.geo_cache,
     cache_after |-> IF key \in DOMAIN r.st.geo_cache
                     THEN <<r.st.geo_cache[key]>> ELSE None,
     cache_before |-> IF key \in DOMAIN before.geo_cache
                      THEN <<before.geo_cache[key]>> ELSE None,
     backend |-> KeyCount(r.st.backend_calls, key) - KeyCount(before.backend_calls, key),
     backend_kept |-> r.st.backend_calls = before.backend_calls,
     geo_failed |-> Appended(before.reverse_geocode_failed, r.st.reverse_geocode_failed),
     aggregated |-> Len(r.st.gps_points) - Len(before.gps_points),
     aggregator_kept |-> /\ r.st.gps_points = before.gps_points
                         /\ r.st.gps_by_day = before.gps_by_day
                         /\ r.st.year_city_count = before.year_city_count
                         /\ r.st.city_total_count = before.city_total_count]

ObserveGT(path, before, r) ==
    ObserveKey(path, before, r,
               IF r.geo.asked THEN geo_key(r.geo.lat, r.geo.lon) ELSE None)

\* process_media called from main, which has no except clause
GT_Call(path, before, r) ==
    /\ target' = r.st.target
    /\ geo_cache' = r.st.geo_cache
    /\ file_format_errors' = r.st.file_format_errors
    /\ corrupted_exif_files' = r.st.corrupted_exif_files
    /\ unclassified_files' = r.st.unclassified_files
    /\ filename_fallback_files' = r.st.filename_fallback_files
    /\ reverse_geocode_failed' = r.st.reverse_geocode_failed
    /\ ffprobe_failed' = r.st.ffprobe_failed
    /\ gps_points' = r.st.gps_points
    /\ gps_by_day' = r.st.gps_by_day
    /\ year_city_count' = r.st.year_city_count
    /\ city_total_count' = r.st.city_total_count
    /\ backend_calls' = r.st.backend_calls
    /\ calls' = Append(calls, ObserveGT(path, before, r))
    /\ pc' = IF r.raised THEN "crashed"
             ELSE IF r.res.src = "blocked" THEN "blocked"
             ELSE pc

\* lines 298-299: one task; an exception ends the process
GT_Process ==
    /\ prog = "gt"
    /\ pc = "walk"
    /\ walk_i > Len(source)
    /\ task_i <= Len(tasks)
    /\ \E answer \in BackendAnswers :
          GT_Call(tasks[task_i], GTState, gt_process_media(tasks[task_i], GTState, answer))
    /\ task_i' = task_i + 1
    /\ UNCHANGED <<source, run, walk_i, zip_j, prog, tmp, tasks, geo_cache_file, history>>
    /\ UNCHANGED sp_vars
    /\ UNCHANGED rr_vars

\* lines 303-306: the cache is written back
GT_Finish ==
    /\ prog = "gt"
    /\ pc = "walk"
    /\ walk_i > Len(source)
    /\ task_i > Len(tasks)
    /\ pc' = "done"
    /\ geo_cache_file' = <<geo_cache>>
    /\ history' = Append(history, [calls |-> calls, target |-> target,
                                   saved |-> geo_cache])
    /\ UNCHANGED <<source, run, walk_i, zip_j, task_i, prog, target, tmp, tasks,
                   geo_cache, unclassified_files, file_format_errors,
                   corrupted_exif_files, filename_fallback_files,
                   reverse_geocode_failed, ffprobe_failed, gps_points, gps_by_day,
                   year_city_count, city_total_count, backend_calls, calls>>
    /\ UNCHANGED sp_vars
    /\ UNCHANGED rr_vars

GTNext == GT_Start \/ GT_Discover \/ GT_Process \/ GT_Finish

SpecGT == GTInit /\ [][GTNext]_vars

-----------------------------------------------------------------------------
(* One asset at a time: the tree holds a single file, drawn from every     *)
(* combination of what its name, its embedded metadata, its sidecar, the   *)
(* video probe and the file system can hold, and either program is run     *)
(* over it.                                                                *)

\* 22 deg 36' 18.99" S, 120 deg 18' 12.17" W
GPS_dms == Tags(<<22, 36, 1899>>, "S", <<120, 18, 1217>>, "W")

V_dated == [status |-> "ok", dt |-> <<2019, 3, 3>>]
V_failed == [status |-> "fail", dt |-> None]

BadSidecar == [status |-> "bad", ts |-> None, geoData |-> None, geoDataExif |-> None]

AssetContent(exif, video) == [id |-> 0, exif |-> exif, video |-> video]

N_badday == <<"2","0","2","3","-","0","2","-","3","0",".","p","n","g">>

AssetNames == {N_family, N_badmonth, N_badday, N_img, N_photo, N_clip, N_clipdate}

AssetExifs ==
    { Exif("ok", None, NoTags),
      Exif("ok", <<2020, 2, 2>>, NoTags),
      Exif("ok", None, GPS_taipei),
      Exif("ok", <<2020, 2, 2>>, GPS_null),
      Exif("corrupt", <<2020, 2, 2>>, GPS_edge),
      Exif("ok", <<2020, 2, 2>>, GPS_dms),
      Exif("fmt", None, NoTags),
      Exif("raise", None, NoTags) }

AssetSidecars ==
    { NoSidecar, BadSidecar, Sidecar(<<2021, 12, 31>>),
      GeoSidecar(<<2021, 12, 31>>, Geo_tokyo, None),
      GeoSidecar(None, None, Geo_tokyo) }

AssetVideos == {NoVideo, V_dated, V_failed}

AssetMtimes == {<<2022, 6, 1>>, None}

AssetFiles ==
    { File(n, AssetContent(x, v), sc, m, TRUE) :
        n \in AssetNames, x \in AssetExifs, v \in AssetVideos,
        sc \in AssetSidecars, m \in AssetMtimes }

AssetTrees ==
    {<<f>> : f \in AssetFiles}
        \cup {<<File(N_notes, C_plain, NoSidecar, <<2022, 6, 1>>, TRUE)>>,
              <<File(N_photo, C_dated, NoSidecar, <<2022, 6, 1>>, FALSE)>>,
              <<Archive(N_zip_a, <<Member(N_family, C_plain, FALSE)>>)>>}

AssetInit ==
    /\ prog \in {"sort", "gt"}
    /\ source \in AssetTrees
    /\ InitCommon
    /\ SPIdle
    /\ GTIdle

AssetNext == SortNext \/ GTNext

SpecAsset == AssetInit /\ [][AssetNext]_vars

-----------------------------------------------------------------------------
(* google_takeout_organizer_final.main over videos, among them videos on   *)
(* which ffprobe does not return; every step of main that can be taken is  *)
(* taken eventually.                                                       *)

V_hang == [status |-> "hang", dt |-> None]

ProbeFiles ==
    { File(n, AssetContent(Exif("fmt", None, NoTags), v), NoSidecar, <<2022, 6, 1>>, TRUE) :
        n \in {N_clip, N_clipdate}, v \in {NoVideo, V_dated, V_failed, V_hang} }
        \cup { File(N_photo, G_taipei, NoSidecar, <<2022, 6, 1>>, TRUE),
               File(N_clip, AssetContent(Exif("ok", <<2020, 2, 2>>, NoTags), V_hang),
                    NoSidecar, <<2022, 6, 1>>, TRUE) }

ProbeInit ==
    /\ prog = "gt"
    /\ source \in Trees(ProbeFiles, MaxTasks)
    /\ InitCommon
    /\ SPIdle
    /\ GTIdle

\* lines 298-299: the task loop goes on to its next task
TaskStep ==
    /\ prog = "gt"
    /\ pc = "walk"
    /\ walk_i > Len(source)
    /\ task_i <= Len(tasks)
    /\ task_i' = task_i + 1

\* the interpreter runs main: a step of main that can be taken is taken; for
\* the task loop this is said of the loop taking its next task, which every
\* step of GT_Process is
SpecProbe ==
    /\ ProbeInit
    /\ [][GTNext]_vars
    /\ WF_vars(GT_Start) /\ WF_vars(GT_Discover) /\ WF_task_i(TaskStep) /\ WF_vars(GT_Finish)

-----------------------------------------------------------------------------
(* sort_photo started beside the store and the target tree an earlier run  *)
(* over another source folder left behind: that run filed photo.JPG, with  *)
(* the bytes of C_png and the modification time 2022-01-01.                *)

PriorDest == join(DayDir(SP_TARGET_DIR, <<2022, 1, 1>>), N_photo)

PriorTarget == Put(EmptyMap, PriorDest, C_png)

PriorIndex == Put(EmptyMap, Sha256(C_png), PriorDest)

IndexFiles ==
    { File(N_family, C_plain, NoSidecar, <<2022, 6, 1>>, TRUE),
      File(N_photo, C_dated, NoSidecar, <<2022, 6, 1>>, TRUE),
      File(N_photo, C_png, NoSidecar, <<2022, 1, 1>>, TRUE),
      File(N_badmonth, C_png, NoSidecar, None, TRUE),
      File(N_badmonth, C_plain, NoSidecar, None, TRUE),
      File(N_notes, C_plain, NoSidecar, <<2022, 6, 1>>, TRUE),
      Archive(N_zip_a, << Member(N_family, C_plain, FALSE),
                          Member(N_notes, C_plain, FALSE),
                          Member(N_photo, C_dated, FALSE) >>) }

IndexInit ==
    /\ prog = "sort"
    /\ source \in Trees(IndexFiles, MaxFiles)
    /\ pc = "idle"
    /\ run = 0
    /\ walk_i = 1
    /\ zip_j = 1
    /\ task_i = 1
    /\ \/ hash_db = None /\ target = EmptyMap
       \/ hash_db = <<PriorIndex>> /\ target = PriorTarget
    /\ tmp = EmptyMap
    /\ hash_index = EmptyMap
    /\ duplicate_files = <<>>
    /\ unclassified_files = <<>>
    /\ file_format_errors = <<>>
    /\ corrupted_exif_files = <<>>
    /\ filename_fallback_files = <<>>
    /\ calls = <<>>
    /\ history = <<>>
    /\ processed_hashes = {}
    /\ GTIdle

SpecIndex == IndexInit /\ [][SortNext]_vars

-----------------------------------------------------------------------------
(* google_takeout_organizer_final over archives that hold a member of the  *)
(* same path: photo.JPG with other bytes in each.                          *)

ExtractFiles ==
    { Archive(N_zip_a, << Member(N_photo, G_taipei, FALSE),
                          Member(N_notes, C_plain, FALSE) >>),
      Archive(N_zip_b, << Member(N_photo, C_dated, FALSE) >>),
      Archive(N_zip_b, << Member(N_img, C_plain, FALSE),
                          Member(N_photo, G_taipei2, FALSE) >>),
      File(N_photo, C_plain, NoSidecar, <<2022, 6, 1>>, TRUE),
      File(N_notes, C_plain, NoSidecar, <<2022, 6, 1>>, TRUE) }

ExtractInit ==
    /\ prog = "gt"
    /\ source \in Trees(ExtractFiles, MaxTasks)
    /\ InitCommon
    /\ SPIdle
    /\ GTIdle

SpecExtract == ExtractInit /\ [][GTNext]_vars

-----------------------------------------------------------------------------
(* rerun_version: main stages the source tree in TMP_DIR, walks TMP_DIR    *)
(* and calls process_media on every media file.  The source tree is one    *)
(* archive; its i-th member has the path i/name, so that extractall puts   *)
(* it at TMP_DIR/i/name.                                                   *)

RR_TARGET_DIR == <<Chars_final>>

RR_UNCLASSIFIED == join(RR_TARGET_DIR, Chars_unclassified)

RR_MEDIA_EXT ==
    {<<".","j","p","g">>, <<".","j","p","e","g">>, <<".","p","n","g">>,
     <<".","m","p","4">>, <<".","m","o","v">>, <<".","h","e","i","c">>,
     <<".","h","e","i","f">>, <<".","a","v","i">>, <<".","m","k","v">>,
     <<".","w","m","v">>, <<".","3","g","p">>, <<".","g","i","f">>,
     <<".","t","i","f","f">>, <<".","w","e","b","p">>, <<".","c","r","2">>}

RR_VIDEO_EXT == {<<".","m","p","4">>, <<".","m","o","v">>, <<".","a","v","i">>,
                 <<".","m","k","v">>}

\* os.path.splitext(path)[1].lower()
rr_ext(path) == lower(splitext(basename(path))[2])

\* parse_time(get_video_time(path)): the creation time, or None when the probe
\* fails or prints none
rr_video_time(f) ==
    IF f.content.video.status = "ok" THEN f.content.video.dt ELSE None

\* lines 160-172: the probe for the video extensions, then the mtime
rr_datetime(path, f) ==
    IF rr_ext(path) \in RR_VIDEO_EXT /\ rr_video_time(f) # None
    THEN rr_video_time(f)
    ELSE f.mtime

\* lines 174-182
rr_dest_dir(dt) == IF dt = None THEN RR_UNCLASSIFIED ELSE DayDir(RR_TARGET_DIR, dt)

\* line 184: the destination keeps the base name
rr_dest(path, f) == join(rr_dest_dir(rr_datetime(path, f)), basename(path))

\* safe_copy: nothing is copied when dst exists
rr_safe_copy(path, dst, tree, t) ==
    IF dst \in DOMAIN tree THEN tree ELSE copy2(path, dst, tree, t)

RRState == [processed_hashes |-> processed_hashes, target |-> target, tmp |-> tmp]

\* lines 158-184, the digest being new.  copy_ok: whether shutil.copy2 succeeds.
\* Lines 186-193 write no file: THUMB_DIR is never created, img.save raises and
\* the exception is dropped.  gps stays None, so lines 195-212 do nothing.
rr_recorded(path, st, dst, copy_ok) ==
    IF dst \notin DOMAIN st.target /\ ~copy_ok
    THEN [st |-> st, raised |-> TRUE]
    ELSE [st |-> [st EXCEPT !.target = rr_safe_copy(path, dst, @, st.tmp)],
          raised |-> FALSE]

\* lines 154-158
rr_hashed(path, st, h, copy_ok) ==
    IF h \in st.processed_hashes
    THEN [st |-> st, raised |-> FALSE]
    ELSE rr_recorded(path, [st EXCEPT !.processed_hashes = @ \cup {h}],
                     rr_dest(path, FileAt(path, st.tmp)), copy_ok)

\* rerun_version.process_media: the state after the call and whether it raised
rr_process_media(path, st, copy_ok) ==
    IF ~FileAt(path, st.tmp).readable
    THEN \* sha256 raises at line 154
         [st |-> st, raised |-> TRUE]
    ELSE rr_hashed(path, st, file_hash(path, st.tmp), copy_ok)

RerunFiles ==
    { File(N_photo, C_plain, NoSidecar, <<2022, 6, 1>>, TRUE),
      File(N_photo, C_dated, NoSidecar, <<2022, 6, 1>>, TRUE),
      File(N_photo, C_dated, NoSidecar, <<2022, 6, 1>>, FALSE),
      File(N_family, C_png, NoSidecar, None, TRUE),
      File(N_clip, AssetContent(Exif("fmt", None, NoTags), V_dated), NoSidecar,
           <<2022, 6, 1>>, TRUE),
      File(N_notes, C_plain, NoSidecar, <<2022, 6, 1>>, TRUE) }

StagedPath(i) == <<Chars_tmp, StrOfInt(i), source[i].name>>

\* lines 225-234: z.extractall(TMP_DIR)
Staged == [p \in {StagedPath(i) : i \in 1..Len(source)} |->
              source[CHOOSE i \in 1..Len(source) : StagedPath(i) = p]]

RerunInit ==
    /\ prog = "rerun"
    /\ source \in Trees(RerunFiles, MaxFiles)
    /\ InitCommon
    /\ SPIdle
    /\ GTIdle

rr_idle == <<source, walk_i, zip_j, prog, hash_index, duplicate_files,
             unclassified_files, file_format_errors, corrupted_exif_files,
             filename_fallback_files, geo_cache, geo_cache_file,
             reverse_geocode_failed, ffprobe_failed, gps_points, gps_by_day,
             year_city_count, city_total_count, backend_calls>>

\* lines 64-68: the digests of the file are added to the empty set of a new
\* process
rr_load_hash_db(db) == IF db = None THEN {} ELSE db[1]

\* lines 220-234: a new process clears TMP_DIR, loads the digests and stages
\* the source tree
RR_Start ==
    /\ prog = "rerun"
    /\ pc \in {"idle", "done", "crashed"}
    /\ run < MaxRuns
    /\ run' = run + 1
    /\ pc' = "walk"
    /\ task_i' = 1
    /\ tmp' = Staged
    /\ tasks' = [i \in 1..Len(source) |-> StagedPath(i)]
    /\ processed_hashes' = rr_load_hash_db(hash_db)
    /\ calls' = <<>>
    /\ UNCHANGED <<target, hash_db, history>>
    /\ UNCHANGED rr_idle

\* Observation of one process_media call
ObserveRR(path, before, r) ==
    [path |-> path, file |-> FileAt(path, before.tmp), raised |-> r.raised,
     h |-> IF FileAt(path, before.tmp).readable
           THEN file_hash(path, before.tmp) ELSE None,
     dest |-> rr_dest(path, FileAt(path, before.tmp)),
     recorded |-> r.st.processed_hashes \ before.processed_hashes,
     created |-> DOMAIN r.st.target \ DOMAIN before.target,
     changed |-> {q \in DOMAIN before.target : r.st.target[q] # before.target[q]}]

\* process_media called from main, which has no except clause
RR_Call(path, before, r) ==
    /\ target' = r.st.target
    /\ processed_hashes' = r.st.processed_hashes
    /\ calls' = Append(calls, ObserveRR(path, before, r))
    /\ pc' = IF r.raised THEN "crashed" ELSE pc

\* lines 236-239: one file of the walk of TMP_DIR
RR_Process ==
    /\ prog = "rerun"
    /\ pc = "walk"
    /\ task_i <= Len(tasks)
    /\ IF rr_ext(tasks[task_i]) \in RR_MEDIA_EXT
       THEN \E copy_ok \in BOOLEAN :
               RR_Call(tasks[task_i], RRState,
                       rr_process_media(tasks[task_i], RRState, copy_ok))
       ELSE UNCHANGED <<target, processed_hashes, calls, pc>>
    /\ task_i' = task_i + 1
    /\ UNCHANGED <<run, tmp, tasks, hash_db, history>>
    /\ UNCHANGED rr_idle

\* line 241: save_hash_db
RR_Finish ==
    /\ prog = "rerun"
    /\ pc = "walk"
    /\ task_i > Len(tasks)
    /\ pc' = "done"
    /\ hash_db' = <<processed_hashes>>
    /\ history' = Append(history, [calls |-> calls, target |-> target,
                                   saved |-> processed_hashes])
    /\ UNCHANGED <<run, task_i, target, tmp, tasks, processed_hashes, calls>>
    /\ UNCHANGED rr_idle

RerunNext == RR_Start \/ RR_Process \/ RR_Finish

SpecRerun == RerunInit /\ [][RerunNext]_vars

-----------------------------------------------------------------------------
(* Either program over its trees of several files.                         *)

FilingInit == SortInit \/ GTInit

SpecFiling == FilingInit /\ [][AssetNext]_vars

-----------------------------------------------------------------------------
(* Claims about sort_photo (SpecSort).                                     *)

\* every process_media call observed so far: those of the finished runs, then
\* those of the current run (a finished run's calls stay in calls until the
\* next run starts)
RunCalls(k) == IF k <= Len(history) THEN history[k].calls ELSE calls

AllCalls ==
    UNION {Range(RunCalls(k)) : k \in 1..run}

DigestOf(tree, path) == Sha256(tree[path])

\* C1: whenever the digest of the asset handed to sort_photo.process_media is
\* already a key of hash_index, the call creates no file in the target tree,
\* changes no file there and leaves hash_index unchanged, and the asset is
\* logged as a duplicate; hence within a run, of the assets with the same
\* digest only the first one can have produced a placement.
C1_DuplicateNotPlaced ==
    /\ \A c \in AllCalls :
          c.known => /\ c.created = {}
                     /\ c.changed = {}
                     /\ c.index_kept
                     /\ Len(c.dups) = 1
    /\ \A k \in 1..run : \A i, j \in 1..Len(RunCalls(k)) :
          (i < j /\ RunCalls(k)[i].h # None /\ RunCalls(k)[i].h = RunCalls(k)[j].h)
              => RunCalls(k)[j].created = {}

\* C1 witness: a run in which an asset was placed and a later asset with the
\* same digest was skipped as a duplicate
C1_Witness ==
    \E i, j \in 1..Len(calls) :
        /\ i < j
        /\ calls[i].created # {}
        /\ calls[j].h = calls[i].h
        /\ calls[j].known
        /\ calls[j].created = {}

\* C2: a process_media call appends a duplicate record exactly when it skips
\* its asset as a duplicate (the digest was a key of hash_index), it appends
\* exactly one, and that record names the asset's path and the value hash_index
\* held for the digest, which is the path of a file of the target tree that
\* holds the same bytes and was created by an earlier call for that digest.
C2_DuplicateRecord ==
    \A c \in AllCalls :
        /\ ~c.known => c.dups = <<>>
        /\ c.known =>
              /\ c.dups = <<[src |-> c.path, prior |-> c.prior[1]]>>
              /\ c.prior[1] \in DOMAIN target
              /\ DigestOf(target, c.prior[1]) = c.h
              /\ \E d \in AllCalls : d.h = c.h /\ d.created = {c.prior[1]}

\* C2 witness: a duplicate was skipped whose prior destination bears another
\* name than the duplicate's own
C2_Witness ==
    \E c \in Range(calls) :
        /\ c.known
        /\ Len(c.dups) = 1
        /\ basename(c.dups[1].prior) # basename(c.path)

\* C3: when main is run twice over the same source tree, the second run
\* starting from the index the first one saved, the second run leaves the target
\* tree as the first left it (it files nothing), every asset whose digest it
\* computes is logged as a duplicate, and the saved index has as many entries
\* after the second run as after the first.
C3_IdempotentRerun ==
    Len(history) >= 2 =>
        /\ history[2].target = history[1].target
        /\ \A c \in Range(history[2].calls) :
              c.h # None => (c.known /\ Len(c.dups) = 1 /\ c.created = {})
        /\ Cardinality(DOMAIN history[2].saved) = Cardinality(DOMAIN history[1].saved)

\* C3 witness: a finished second run that saw at least two assets, after a first
\* run that filed at least two
C3_Witness ==
    /\ Len(history) >= 2
    /\ Cardinality(DOMAIN history[1].saved) >= 2
    /\ Len(history[2].calls) >= 2
    /\ \A c \in Range(history[2].calls) : c.known

InUnclassified(path) == SubSeq(path, 1, Len(UNCLASSIFIED_DIR)) = UNCLASSIFIED_DIR

\* C4: every process_media call that places its asset, in a day folder or in
\* the unclassified folder, creates exactly one file, which holds the asset's
\* bytes, and leaves hash_index mapping the asset's digest to the path of that
\* file; and every entry of hash_index stays the path of a file with that
\* digest, so a later asset with the bytes of an unclassified placement is
\* skipped as its duplicate.
C4_PlacementsIndexed ==
    /\ \A c \in AllCalls :
          /\ (c.h # None /\ ~c.known) => c.created # {}
          /\ c.created # {} =>
                /\ c.indexed # None
                /\ c.created = {c.indexed[1]}
                /\ DigestOf(target, c.indexed[1]) = c.h
          /\ c.unclassified # <<>> => (c.created # {} /\ \A q \in c.created : InUnclassified(q))
    /\ \A h \in DOMAIN hash_index :
          /\ hash_index[h] \in DOMAIN target
          /\ DigestOf(target, hash_index[h]) = h

\* C4 witness: an asset was placed in the unclassified folder and a later asset
\* with the same bytes was skipped as a duplicate of that file
C4_Witness ==
    \E i, j \in 1..Len(calls) :
        /\ i < j
        /\ calls[i].unclassified # <<>>
        /\ calls[j].known
        /\ calls[j].h = calls[i].h
        /\ calls[j].prior[1] \in calls[i].created
        /\ InUnclassified(calls[j].prior[1])

-----------------------------------------------------------------------------
(* Claims about the resolvers (SpecAsset).                                 *)

\* the sources of google_takeout_organizer_final's resolver in their order
Order(path) == <<"exif", "json">> \o VIDEO_TAG(path) \o <<"filename", "mtime">>

\* the timestamp the video probe holds for a call, None where the probe does
\* not apply
VideoDate(c) ==
    IF prog = "gt" /\ IsVideo(basename(c.path)) THEN c.sources.video ELSE None

\* the first source of the order that holds a timestamp, with its timestamp
FirstSource(c) ==
    IF c.sources.exif # None THEN <<"exif", c.sources.exif>>
    ELSE IF c.sources.json # None THEN <<"json", c.sources.json>>
    ELSE IF VideoDate(c) # None THEN <<"video", VideoDate(c)>>
    ELSE IF c.sources.filename # None THEN <<"filename", c.sources.filename>>
    ELSE IF c.sources.mtime # None THEN <<"mtime", c.sources.mtime>>
    ELSE <<"none", None>>

\* the sources of the order up to and including src, all of them for "none"
UpTo(order, src) ==
    IF src \in Range(order)
    THEN SubSeq(order, 1, CHOOSE i \in 1..Len(order) : order[i] = src)
    ELSE order

\* C5: the timestamp google_takeout_organizer_final.resolve_datetime_and_gps
\* returns is that of the first source, in the order EXIF, sidecar JSON, video
\* probe (video extensions only), file name, mtime, that holds one; the sources
\* read are those up to that one and no later one: a call answered by EXIF
\* logs nothing about the sidecar, and a call answered by EXIF or the sidecar
\* does not run the video probe.
C5_FirstSourceWins ==
    prog = "gt" =>
        \A c \in AllCalls :
            /\ c.src = FirstSource(c)[1]
            /\ c.dt = FirstSource(c)[2]
            /\ c.consulted = UpTo(Order(c.path), c.src)
            /\ c.src = "exif" =>
                  \A i \in 1..Len(c.corrupt) : c.corrupt[i].path = c.path
            /\ c.src \in {"exif", "json"} => c.ffprobe = <<>>
            /\ ~IsVideo(basename(c.path)) => c.ffprobe = <<>>

\* C5 witness: EXIF and the sidecar hold different timestamps and the call
\* returned that of EXIF
C5_Witness ==
    /\ prog = "gt"
    /\ \E c \in Range(calls) :
          /\ c.sources.exif # None
          /\ c.sources.json # None
          /\ c.sources.exif # c.sources.json
          /\ c.dt = c.sources.exif

TargetRoot == IF prog = "sort" THEN SP_TARGET_DIR ELSE GT_TARGET_DIR

DirOf(path) == SubSeq(path, 1, Len(path) - 1)

\* C6: in both resolvers a call that resolves a timestamp appends its asset's
\* path to filename_fallback_files exactly when the file name is the source of
\* the returned timestamp, and appends nothing otherwise; when the file name
\* holds a date and no earlier source does, the file name's date is returned
\* (the mtime is not) and the asset is copied into that date's
\* year/month/day folder.
C6_FilenameFallback ==
    \A c \in AllCalls :
        /\ c.fallback = IF c.src = "filename" THEN <<c.path>> ELSE <<>>
        /\ (/\ c.src # "notcalled"
            /\ c.sources.filename # None
            /\ c.sources.exif = None
            /\ c.sources.json = None
            /\ VideoDate(c) = None)
              => /\ c.src = "filename"
                 /\ c.dt = c.sources.filename
                 /\ ~c.raised =>
                       /\ Cardinality(c.created) = 1
                       /\ \A q \in c.created : DirOf(q) = DayDir(TargetRoot, c.sources.filename)

\* C6 witness: 20220101_family.jpg without embedded date and without sidecar,
\* its mtime 2022-06-01, was resolved to 2022-01-01 by its name, logged as a
\* filename fallback and copied to 2022/01/01
C6_Witness ==
    \E c \in Range(calls) :
        /\ basename(c.path) = N_family
        /\ c.file.mtime = <<2022, 6, 1>>
        /\ c.sources.exif = None
        /\ c.sources.json = None
        /\ c.src = "filename"
        /\ c.dt = <<2022, 1, 1>>
        /\ c.fallback = <<c.path>>
        /\ c.created = {join(DayDir(TargetRoot, <<2022, 1, 1>>), N_family)}

\* C7: the pair google_takeout_organizer_final.resolve_datetime_and_gps returns
\* has a coordinate only together with a timestamp, and only when the timestamp
\* came from EXIF or from the sidecar, in which case it is what that source
\* holds; a timestamp of the video probe, the file name or the mtime comes with
\* no coordinate, whatever an earlier source had found.
C7_CoordinateNeedsTimestamp ==
    prog = "gt" =>
        \A c \in AllCalls :
            /\ c.gps # None => (c.dt # None /\ c.src \in {"exif", "json"})
            /\ c.src = "exif" => c.gps = c.sources.exif_gps
            /\ c.src = "json" => c.gps = c.sources.json_gps
            /\ c.src \notin {"exif", "json"} => c.gps = None

\* C7 witness: EXIF held a coordinate without a timestamp, the timestamp came
\* from the video probe, the file name or the mtime, and no coordinate was
\* returned
C7_Witness ==
    /\ prog = "gt"
    /\ \E c \in Range(calls) :
          /\ c.sources.exif_gps # None
          /\ c.src \in {"video", "filename", "mtime"}
          /\ c.dt # None
          /\ c.gps = None

\* C8: a google_takeout_organizer_final.process_media call whose resolver found
\* no timestamp still copies its asset into the target tree.
C8_NeverDropped ==
    prog = "gt" =>
        \A c \in AllCalls : (c.dt = None /\ ~c.raised) => c.created # {}

-----------------------------------------------------------------------------
(* Claims about the geocoder (SpecAsset, SpecGT).                          *)

Asked(c) == c.geo.asked

Degenerate(c) == NearZero(c.geo.lat) /\ NearZero(c.geo.lon)

\* C9: a reverse_geocode_city_offline call on a coordinate whose latitude and
\* longitude are both less than 0.001 from zero returns None, appends one
\* failure with the reason zero, does not call the backend, and leaves
\* geo_cache as it was.
C9_ZeroCoordinateRejected ==
    prog = "gt" =>
        \A c \in AllCalls :
            (Asked(c) /\ Degenerate(c)) =>
                /\ c.geo.ret = None
                /\ c.geo_failed = <<Failure(c.geo.lat, c.geo.lon, "zero")>>
                /\ c.backend_kept
                /\ c.cache_kept
                /\ c.aggregated = 0

\* C9 witness: the geocoder was called on a coordinate near zero that is not
\* zero itself
C9_Witness ==
    /\ prog = "gt"
    /\ \E c \in Range(calls) :
          /\ Asked(c)
          /\ Degenerate(c)
          /\ c.geo.lat[2] # 0
          /\ c.geo_failed # <<>>

\* C10: within a process the backend is called at most once for each rounded
\* key: a reverse_geocode_city_offline call on a coordinate that is not near
\* zero calls the backend exactly once and writes the key when the key is not
\* in geo_cache, whatever the backend answers, and calls no backend and returns
\* the cached value when the key is there; so of two calls of a run whose
\* coordinates round to the same key, the later one is answered from the cache.
C10_BackendOncePerKey ==
    /\ \A k \in DOMAIN backend_calls : backend_calls[k] <= 1
    /\ \A c \in AllCalls :
          (Asked(c) /\ ~Degenerate(c)) =>
              IF c.cached
              THEN /\ c.backend_kept
                   /\ c.cache_kept
                   /\ c.geo.ret = c.cache_before[1]
              ELSE /\ c.backend = 1
                   /\ c.cache_after # None
                   /\ c.cache_after[1] = c.geo.ret
    /\ \A k \in 1..run : \A i, j \in 1..Len(RunCalls(k)) :
          (/\ i < j
           /\ Asked(RunCalls(k)[i]) /\ ~Degenerate(RunCalls(k)[i])
           /\ Asked(RunCalls(k)[j]) /\ ~Degenerate(RunCalls(k)[j])
           /\ RunCalls(k)[i].key = RunCalls(k)[j].key)
              => /\ RunCalls(k)[j].cached
                 /\ RunCalls(k)[j].backend_kept
                 /\ RunCalls(k)[j].geo.ret = RunCalls(k)[i].geo.ret

\* C10 witness: two calls of a run on different coordinates that round to the
\* same key; the first called the backend, the second was answered from the
\* cache
C10_Witness ==
    \E i, j \in 1..Len(calls) :
        /\ i < j
        /\ Asked(calls[i]) /\ Asked(calls[j])
        /\ calls[i].key = calls[j].key
        /\ <<calls[i].geo.lat, calls[i].geo.lon>> # <<calls[j].geo.lat, calls[j].geo.lon>>
        /\ calls[i].backend = 1
        /\ calls[j].cached
        /\ calls[j].backend = 0

\* C11: a reverse_geocode_city_offline call that misses the cache and returns
\* None (the backend gave an empty result, a result without name or cc, or
\* raised) appends a failure to reverse_geocode_failed.
C11_MissFailureLogged ==
    prog = "gt" =>
        \A c \in AllCalls :
            (Asked(c) /\ ~Degenerate(c) /\ ~c.cached /\ c.geo.ret = None)
                => c.geo_failed # <<>>

-----------------------------------------------------------------------------
(* Claims about the runs of sort_photo.main (SpecSort).                    *)

\* the media assets of the source tree: <<i, 0>> for the loose media file at
\* position i, <<i, k>> for the k-th member of the archive at position i when
\* it is a media member
Discovered ==
    {<<i, 0>> : i \in {n \in 1..Len(source) :
                          ~IsZip(source[n].name) /\ IsMedia(source[n].name)}}
        \cup UNION {{<<i, k>> : k \in {n \in 1..Len(source[i].members) :
                                         IsMedia(source[i].members[n].name)}} :
                    i \in {n \in 1..Len(source) : IsZip(source[n].name)}}

\* the outcomes a run has recorded: the process_media calls that returned (each
\* filed its asset or logged it as a duplicate) and the errors main logged
Accounted ==
    Cardinality({i \in 1..Len(calls) : ~calls[i].raised})
        + Cardinality({i \in 1..Len(corrupted_exif_files) :
                          corrupted_exif_files[i].note = "UNKNOWN"})

\* C12: when a run of sort_photo.main has ended, every discovered media asset,
\* loose or member of an archive, has exactly one outcome: it was filed, logged
\* as a duplicate, or logged as skipped with an error.
C12_EveryAssetAccounted ==
    (prog = "sort" /\ pc = "done") => Accounted = Cardinality(Discovered)

-----------------------------------------------------------------------------
(* Claims about the aggregator of google_takeout_organizer_final (SpecGT). *)

\* the place a process_media call resolved, None without one
PlaceOf(c) == IF Asked(c) THEN c.geo.ret ELSE None

\* the process_media calls of the current process that resolved a place
Placed == {i \in 1..Len(calls) : PlaceOf(calls[i]) # None}

BucketOf(c) == DayDir(GT_TARGET_DIR, c.dt)

CountAt(counts, k) == IF k \in DOMAIN counts THEN counts[k] ELSE 0

RECURSIVE YearSum(_, _)
YearSum(place, years) ==
    IF years = {} THEN 0
    ELSE CountAt(year_city_count[CHOOSE y \in years : TRUE], place)
            + YearSum(place, years \ {CHOOSE y \in years : TRUE})

\* C13: after any sequence of process_media calls of a process,
\* gps_by_day[bucket] is the set of the places resolved for the assets filed
\* in that bucket, year_city_count[year][place] and city_total_count[place] are
\* the numbers of assets that resolved to the place (in that year, and in all),
\* so that city_total_count[place] is the sum over the years, and a call that
\* resolved no place leaves the aggregator as it was.
C13_AggregatorCounts ==
    prog = "gt" =>
        /\ DOMAIN gps_by_day = {BucketOf(calls[i]) : i \in Placed}
        /\ \A b \in DOMAIN gps_by_day :
              gps_by_day[b] = {PlaceOf(calls[i]) : i \in {n \in Placed : BucketOf(calls[n]) = b}}
        /\ DOMAIN city_total_count = {PlaceOf(calls[i]) : i \in Placed}
        /\ \A p \in DOMAIN city_total_count :
              /\ city_total_count[p] = Cardinality({i \in Placed : PlaceOf(calls[i]) = p})
              /\ city_total_count[p] = YearSum(p, DOMAIN year_city_count)
        /\ DOMAIN year_city_count = {calls[i].dt[1] : i \in Placed}
        /\ \A y \in DOMAIN year_city_count :
              /\ DOMAIN year_city_count[y] =
                     {PlaceOf(calls[i]) : i \in {n \in Placed : calls[n].dt[1] = y}}
              /\ \A p \in DOMAIN year_city_count[y] :
                     year_city_count[y][p] =
                         Cardinality({i \in Placed : PlaceOf(calls[i]) = p /\ calls[i].dt[1] = y})
        /\ Len(gps_points) = Cardinality(Placed)
        /\ \A i \in 1..Len(calls) :
              calls[i].aggregated = IF i \in Placed THEN 1 ELSE 0

\* C13 witness: two assets of one bucket resolved to the same place: the
\* bucket holds the place once and the counts are two
C13_Witness ==
    /\ prog = "gt"
    /\ \E i, j \in Placed :
          /\ i < j
          /\ PlaceOf(calls[i]) = PlaceOf(calls[j])
          /\ BucketOf(calls[i]) = BucketOf(calls[j])
          /\ gps_by_day[BucketOf(calls[i])] = {PlaceOf(calls[i])}
          /\ city_total_count[PlaceOf(calls[i])] = 2

-----------------------------------------------------------------------------
(* Claims about the GPS conversion (SpecAsset).                            *)

\* the GPS tags of the file of a call, when read_exif gets to them
TagsOf(c) == c.file.content.exif.gps

ReadsTags(c) ==
    /\ c.file.readable
    /\ c.file.content.exif.status \in {"ok", "corrupt"}
    /\ TagsOf(c).lat # None /\ TagsOf(c).lon # None
    /\ TagsOf(c).lat_ref # "" /\ TagsOf(c).lon_ref # ""

\* C14: the coordinate read_exif computes from the GPS tags has the magnitude
\* degrees + minutes/60 + seconds/3600, which is what
\* test_function.convert_to_decimal returns, and is negated exactly when the
\* reference is S (latitude) or W (longitude); with N or E it is not negated.
C14_GpsConversion ==
    prog = "gt" =>
        \A c \in AllCalls :
            ReadsTags(c) =>
                /\ TagsOf(c).lat_ref \in {"N", "S"}
                /\ TagsOf(c).lon_ref \in {"E", "W"}
                /\ c.sources.exif_gps =
                      <<Coord(TagsOf(c).lat_ref = "S", convert_to_decimal(TagsOf(c).lat)),
                        Coord(TagsOf(c).lon_ref = "W", convert_to_decimal(TagsOf(c).lon))>>

\* C14 witness: 22 deg 36' 18.99" S, 120 deg 18' 12.17" W was read as
\* -22.605275, -120.30338 (8137899 and 43309217 units of 1/360000 degree)
C14_Witness ==
    /\ prog = "gt"
    /\ \E c \in Range(calls) :
          /\ ReadsTags(c)
          /\ TagsOf(c) = GPS_dms
          /\ c.sources.exif_gps = <<Coord(TRUE, 8137899), Coord(TRUE, 43309217)>>
          /\ c.gps = c.sources.exif_gps

-----------------------------------------------------------------------------
(* Claims about datetime_from_filename (SpecAsset).                        *)

\* the text of a date as the patterns read it, and a name without separators
DateDigits(d) == StrOfInt(d[1]) \o Pad2(d[2]) \o Pad2(d[3])

NoSeps(s) == SelectSeq(s, LAMBDA ch : ~IsSep(ch))

OccursIn(d, name) ==
    \E i, j \in 1..Len(name) : NoSeps(SubSeq(name, i, j)) = DateDigits(d)

\* no source before the file name holds a timestamp
NameDecides(c) ==
    /\ c.src # "notcalled"
    /\ c.sources.exif = None
    /\ c.sources.json = None
    /\ VideoDate(c) = None

\* C15: in both programs datetime_from_filename returns either None or a valid
\* calendar date whose digits stand in the name; a name whose digits match a
\* pattern with an invalid month or day (IMG_20231305.jpg, 2023-02-30.png)
\* gives None: the call does not raise, logs no filename fallback, and takes
\* the mtime when no earlier source has a timestamp; IMG_20230405_120000.jpg
\* gives 2023-04-05.
C15_InvalidDateIsNoMatch ==
    \A c \in AllCalls :
        /\ c.sources.filename # None =>
              /\ ValidDate(c.sources.filename[1], c.sources.filename[2], c.sources.filename[3])
              /\ OccursIn(c.sources.filename, basename(c.path))
        /\ basename(c.path) = N_img => c.sources.filename = <<2023, 4, 5>>
        /\ basename(c.path) \in {N_badmonth, N_badday} =>
              /\ c.sources.filename = None
              /\ c.fallback = <<>>
              /\ NameDecides(c) =>
                    /\ ~c.raised
                    /\ c.dt = c.sources.mtime
                    /\ c.src = IF c.sources.mtime = None THEN "none" ELSE "mtime"

\* C15 witness: IMG_20231305.jpg, without embedded date and sidecar, was
\* resolved by its mtime and no filename fallback was logged
C15_Witness ==
    \E c \in Range(calls) :
        /\ basename(c.path) = N_badmonth
        /\ NameDecides(c)
        /\ c.src = "mtime"
        /\ c.dt = <<2022, 6, 1>>
        /\ c.fallback = <<>>
        /\ c.created # {}

-----------------------------------------------------------------------------
(* Claims about the persisted stores (SpecGT, SpecSort).                   *)

\* C16: when a process of google_takeout_organizer_final has ended, normally
\* or by an error raised while an asset was processed, every key of geo_cache,
\* loaded or written during the run, is in the cache file with its value.
C16_CachePersisted ==
    (prog = "gt" /\ pc \in {"done", "crashed"}) =>
        /\ geo_cache # EmptyMap => geo_cache_file # None
        /\ \A k \in DOMAIN geo_cache :
              /\ k \in DOMAIN geo_cache_file[1]
              /\ geo_cache_file[1][k] = geo_cache[k]

-----------------------------------------------------------------------------
(* Claims about termination (SpecProbe).                                   *)

\* C17: a run of google_takeout_organizer_final.main that has started ends,
\* by returning or by an exception, also when an external call made for an
\* asset does not return by itself.
C17_RunEnds == (prog = "gt" /\ pc = "walk") ~> (pc \in {"done", "crashed"})

-----------------------------------------------------------------------------
(* Claims about safe_copy (SpecFiling).                                    *)

\* the call lists of the runs: those of the finished runs and, while a run is
\* under way or has ended by an error, that of the current one
CallLists ==
    [k \in 1..Len(history) |-> history[k].calls]
        \o (IF pc \in {"walk", "crashed", "blocked"} THEN <<calls>> ELSE <<>>)

\* base, or base with _i before its extension
SuffixedNames(base) ==
    {base} \cup {splitext(base)[1] \o <<"_">> \o StrOfInt(i) \o splitext(base)[2] :
                    i \in 1..Cardinality(DOMAIN target)}

\* C18: in both programs a process_media call changes no file that exists in
\* the target tree and, when it places its asset, creates exactly one file,
\* which holds the asset's bytes and is named by the asset's base name or by
\* that name with a suffix _i; no two placements of any runs have the same
\* path, and a file once placed stays as it is.
C18_SafeCopy ==
    /\ \A c \in AllCalls :
          /\ c.changed = {}
          /\ Cardinality(c.created) <= 1
          /\ \A q \in c.created :
                /\ basename(q) \in SuffixedNames(basename(c.path))
                /\ q \in DOMAIN target
                /\ target[q] = c.file.content
    /\ \A k1, k2 \in 1..Len(CallLists) :
          \A i \in 1..Len(CallLists[k1]) : \A j \in 1..Len(CallLists[k2]) :
              <<k1, i>> # <<k2, j>> =>
                  CallLists[k1][i].created \cap CallLists[k2][j].created = {}

\* C18 witness: an asset was placed under its name with the suffix _1 beside
\* an earlier file of the same name and other bytes, which is still there
C18_Witness ==
    \E c \in Range(calls) : \E q \in c.created :
        /\ basename(q) # basename(c.path)
        /\ join(DirOf(q), basename(c.path)) \in DOMAIN target
        /\ target[join(DirOf(q), basename(c.path))] # c.file.content

-----------------------------------------------------------------------------
(* Claims about the order of placement and lookup (SpecGT).                *)

\* C19: a google process_media call that resolved a timestamp and a coordinate
\* and copied its asset calls the geocoder, and the asset is in its day bucket
\* when the lookup starts; whatever the lookup returns (a place, None for a
\* near-zero coordinate, an empty or incomplete answer, or a backend exception)
\* the file stays where it was placed and the call returns normally; the
\* aggregator is unchanged when there is no place, and counts the asset once
\* when there is one.
C19_PlacementBeforeGeocoding ==
    prog = "gt" =>
        \A c \in AllCalls :
            /\ Asked(c) <=> (c.dt # None /\ c.gps # None /\ ~c.raised)
            /\ Asked(c) =>
                  /\ Cardinality(c.created) = 1
                  /\ c.created \subseteq c.geo.files
                  /\ \A q \in c.created :
                        /\ DirOf(q) = DayDir(GT_TARGET_DIR, c.dt)
                        /\ q \in DOMAIN target
                        /\ target[q] = c.file.content
                  /\ c.geo.ret = None => c.aggregator_kept
                  /\ c.geo.ret # None => c.aggregated = 1

\* C19 witness: a run with two lookups, one that returned a place and one for
\* which the backend raised, each after its asset was filed
C19_Witness ==
    \E i, j \in 1..Len(calls) :
        /\ Asked(calls[i]) /\ calls[i].geo.ret # None /\ calls[i].created # {}
        /\ Asked(calls[j]) /\ calls[j].geo.ret = None /\ calls[j].created # {}
        /\ \E f \in Range(calls[j].geo_failed) : f.note = "exception"

-----------------------------------------------------------------------------
(* Claims about the fingerprint index of sort_photo (SpecIndex).           *)

\* every entry of index a is an entry of index b
Extends(b, a) == \A h \in DOMAIN a : h \in DOMAIN b /\ b[h] = a[h]

StoredIndex(db) == IF db = None THEN EmptyMap ELSE db[1]

\* C20: in sort_photo, after the store was loaded the index of the process
\* holds every stored entry; no step of a run removes an entry of the index or
\* changes the destination recorded for a digest; and the store a run writes
\* holds every entry of the store it replaces.
C20_IndexMonotone ==
    /\ [](pc # "idle" => Extends(hash_index, StoredIndex(hash_db)))
    /\ [][/\ Extends(hash_index', hash_index)
          /\ Extends(StoredIndex(hash_db'), StoredIndex(hash_db))]_vars

\* C20 witness: a finished run that started from a store with one entry, met
\* the stored digest again as a duplicate, and wrote a store with that entry
\* and at least one new one
C20_Witness ==
    /\ pc = "done"
    /\ Len(history) = 1
    /\ \E c \in Range(history[1].calls) : c.h = Sha256(C_png) /\ c.known
    /\ Extends(hash_db[1], PriorIndex)
    /\ Cardinality(DOMAIN hash_db[1]) > Cardinality(DOMAIN PriorIndex)

-----------------------------------------------------------------------------
(* Claims about the video probe (SpecAsset).                               *)

\* the call reached read_video_time
Probed(c) == "video" \in Range(c.consulted)

\* C21: a google process_media call whose probe ran and printed nothing (the
\* creation-time field is absent) appends nothing to ffprobe_failed; an entry
\* is appended only when the probe itself failed.
C21_EmptyProbeNotLogged ==
    prog = "gt" =>
        \A c \in AllCalls :
            /\ (Probed(c) /\ c.file.content.video.status = "empty") => c.ffprobe = <<>>
            /\ c.ffprobe # <<>> => (Probed(c) /\ c.file.content.video.status = "fail")

-----------------------------------------------------------------------------
(* Claims about the archive members of google main (SpecExtract).          *)

\* the media members of the archives of the source tree, as <<i, k>>: the k-th
\* member of the archive at position i
ArchiveMembers ==
    UNION { {<<i, k>> : k \in {n \in 1..Len(source[i].members) :
                                  IsMedia(source[i].members[n].name)}} :
            i \in {n \in 1..Len(source) : IsZip(source[n].name)} }

MemberContent(a) == source[a[1]].members[a[2]].content

\* the files of the target tree that hold these bytes
FiledWith(content) == {q \in DOMAIN target : target[q] = content}

\* C22: when a run of google main has finished, the bytes of every media member
\* of every archive of the source tree are in a file of the target tree, also
\* when another archive holds a member of the same path with other bytes.
C22_MemberOwnContent ==
    (prog = "gt" /\ pc = "done") =>
        \A a \in ArchiveMembers : FiledWith(MemberContent(a)) # {}

-----------------------------------------------------------------------------
(* Claims about rerun_version.process_media (SpecRerun).                   *)

\* C23: in rerun_version the bytes of every digest of processed_hashes are in
\* a file of the target tree, and a process_media call that records a digest
\* has returned normally with the bytes of its asset at the destination path,
\* also when a file of the same name with other bytes was in the bucket and
\* when the copy fails.
C23_RecordedIsFiled ==
    prog = "rerun" =>
        /\ \A h \in processed_hashes : \E q \in DOMAIN target : Sha256(target[q]) = h
        /\ \A c \in Range(calls) :
              c.recorded # {} =>
                  /\ ~c.raised
                  /\ c.dest \in DOMAIN target
                  /\ target[c.dest] = c.file.content

=============================================================================
